---- MODULE Spec2Model ----
(***************************************************************************)
(* Field metrics pipeline of the soilwise-ui dashboard.                    *)
(*                                                                         *)
(* Numbers are fixed point.  NDVI is held in thousandths (0.4 is 400),     *)
(* soil moisture in tenths of a percent (25% is 250), yields in tenths of  *)
(* a ton per hectare (4.2 is 42), a yield gap in hundredths (2 is 200) and *)
(* a draw of Math.random() in thousandths (0 .. 999).                      *)
(***************************************************************************)
EXTENDS Integers, Sequences, FiniteSets, TLC

VARIABLES
    field,        \* argument of the running fetchYieldPrediction call
    pc,           \* position of fetchYieldPrediction: the await it is suspended at
    attempted,    \* data sources invoked by the running call, in invocation order
    failed,       \* data sources whose promise rejected in the running call
    result,       \* value the fetchYieldPrediction promise resolved with
    rejected,     \* TRUE when the fetchYieldPrediction promise rejected
    yieldHistory, \* yieldHistory of the prediction the promise resolved with
    currentYear,  \* new Date().getFullYear()
    recIn,        \* arguments of generateRecommendations
    recOut,       \* list returned by generateRecommendations
    coordinates,  \* ring passed to the running fetchRemoteSensingData call
    rsPc,         \* position of fetchRemoteSensingData
    caller,       \* who awaits the running call: "direct" or "create" (handleDrawCreate)
    defaults,     \* ndvi and soilMoisture handleDrawCreate drew before the call
    requestCoords, \* ring in the body of the request sent by the running call
    netRequests,  \* requests the running call has issued
    response,     \* what the request settled with
    rsResult,     \* value the fetchRemoteSensingData promise resolved with
    rsRejected,   \* TRUE when the fetchRemoteSensingData promise rejected
    newField,     \* record handleDrawCreate passed to onFieldCreated
    passedCoords, \* the caller's ring as it was when the call was made
    estimatorCalls, \* calls of fetchRemoteSensingData made so far
    events,       \* draw events the map has handled
    drawEvent,    \* the last of them: "create", "update" or "delete"
    wired,        \* TRUE when the map was given the onFieldUpdated prop
    fieldUpdates, \* updates handleDrawUpdate passed to onFieldUpdated
    toast,        \* the toast shown last
    histIn,       \* arguments of generateHistoricalData, today's date and the Math.random stream
    histI,        \* loop variable i of generateHistoricalData
    histResult,   \* its array result
    histCalls,    \* calls of Math.random() it has made
    histOut,      \* list returned by generateHistoricalData
    local_fields, \* localStorage item 'local_fields'
    selected_field, \* localStorage item 'selected_field'
    remoteFields, \* rows of the remote table 'fields'
    clock,        \* the current time
    savePc,       \* position of saveFieldData
    saveField,    \* its updatedField
    saveOutcome,  \* what the running call found of the remote store
    saveReturn,   \* value the saveFieldData promise resolved with
    saveThrew,    \* TRUE when the saveFieldData promise rejected
    localFields,  \* state localFields of the Fields page
    useLocalStorage, \* state useLocalStorage of the Fields page
    fields,       \* data of the ['fields'] query
    issued,       \* ids given out so far
    lastOp,       \* the last mutation of the Fields page and how it ended
    refetched,    \* TRUE when the query has been refetched since that mutation
    redraws,      \* calls of handleDrawUpdate for one field, in the order they began
    fieldRecord,  \* that field's record as the parent of the map holds it
    detailsField, \* state field of the FieldDetails page
    loadPc,       \* position of loadFieldData
    parsedField,  \* its parsedField
    storedField,  \* the record as it was read from 'selected_field'
    routeId,      \* id of the route
    generated,    \* data types generateHistoricalData was called for by the load
    activeTab,    \* state activeTab of the FieldDetails page
    effectPending, \* TRUE when field or activeTab changed and the auto-fetch effect has yet to run
    weatherCalls, \* calls of refreshWeatherData, in the order they began
    userActions,  \* tab and button clicks handled so far
    requestsSinceAction, \* weather requests issued since the last of them
    ndviIn,       \* arguments of calculateRealNDVI, the month and its Math.random draws
    ndviOut,      \* value the calculateRealNDVI promise resolved with
    moistureIn,   \* soilMoisture of a field that is coloured
    moistureColours, \* its colour on the Fields map and on the FieldDetails map
    creates       \* the createField mutations begun, in the order they were begun

vars == <<field, pc, attempted, failed, result, rejected, yieldHistory, currentYear,
          recIn, recOut,
          coordinates, rsPc, caller, defaults, requestCoords, netRequests,
          response, rsResult, rsRejected, newField, passedCoords,
          estimatorCalls, events, drawEvent, wired, fieldUpdates, toast, histIn, histI,
          histResult, histCalls, histOut, local_fields, selected_field,
          remoteFields, clock, savePc, saveField, saveOutcome, saveReturn,
          saveThrew, localFields, useLocalStorage, fields, issued, lastOp,
          refetched, redraws, fieldRecord, detailsField, loadPc, parsedField,
          storedField, routeId, generated, activeTab, effectPending,
          weatherCalls, userActions, requestsSinceAction, ndviIn, ndviOut,
          moistureIn, moistureColours, creates>>

rsVars == <<coordinates, rsPc, caller, defaults, requestCoords, netRequests,
            response, rsResult, rsRejected, newField, passedCoords,
            estimatorCalls, events, drawEvent, wired, fieldUpdates, toast>>

yieldVars == <<field, pc, attempted, failed, result, rejected, yieldHistory, currentYear>>
recVars == <<recIn, recOut>>
histVars == <<histIn, histI, histResult, histCalls, histOut>>

\* state of the pages around the pipeline
storeVars == <<local_fields, selected_field, remoteFields, clock>>
saveVars == <<savePc, saveField, saveOutcome, saveReturn, saveThrew>>

fieldsVars == <<localFields, useLocalStorage, fields, issued, lastOp, refetched>>

redrawVars == <<redraws, fieldRecord>>

loadVars == <<detailsField, loadPc, parsedField, storedField, routeId, generated>>

weatherVars == <<activeTab, effectPending, weatherCalls, userActions, requestsSinceAction>>

detailsVars == <<loadVars, weatherVars>>

\* state of the pages around the pipeline
pureVars == <<ndviIn, ndviOut, moistureIn, moistureColours>>

createVars == <<creates>>

\* state of the pages around the pipeline
pageVars == <<histVars, storeVars, saveVars, fieldsVars, redrawVars, detailsVars, pureVars,
              createVars>>

(***************************************************************************)
(* JavaScript numbers that are not ordinary numbers.                       *)
(***************************************************************************)
NaN == 0 - 900001
Undefined == 0 - 900002

IsNum(x) == x # NaN /\ x # Undefined

\* comparisons with NaN (or undefined, which converts to NaN) are false
Lt(a, b) == IsNum(a) /\ IsNum(b) /\ a < b
Gt(a, b) == IsNum(a) /\ IsNum(b) /\ a > b
Ge(a, b) == IsNum(a) /\ IsNum(b) /\ a >= b
Le(a, b) == IsNum(a) /\ IsNum(b) /\ a <= b

\* x || d : undefined, NaN and 0 are falsy
OrDefault(x, d) == IF x = Undefined \/ x = NaN \/ x = 0 THEN d ELSE x

Null == [kind |-> "null"]

(***************************************************************************)
(* Recommendation engine                                                   *)
(***************************************************************************)
RecNitrogen == "Apply nitrogen fertilizer to improve crop health and density"
RecFoliar == "Consider foliar application of micronutrients to address potential deficiencies"
RecVariableRate == "Use variable rate fertilizer application based on NDVI zones"
RecIrrigation == "Increase irrigation frequency to maintain optimal soil moisture"
RecDrainage == "Improve field drainage to prevent waterlogging and root diseases"
RecSoilTesting == "Conduct soil testing to identify limiting factors for yield potential"
RecPrecisionAg == "Consider precision agriculture techniques to maximize yield efficiency"
RecMaintain == "Maintain current management practices which are yielding good results"

NdviThresholdLow == 400
NdviThresholdHigh == 600
MoistureThresholdLow == 250
MoistureThresholdHigh == 600
YieldGapThreshold == 200

NdviRecommendationsLoose(ndvi) ==
    IF Lt(ndvi, NdviThresholdLow) THEN <<RecNitrogen, RecFoliar>>
    ELSE IF Le(ndvi, NdviThresholdHigh) THEN <<RecVariableRate>>
    ELSE << >>

NdviRecommendations(ndvi) ==
    IF Lt(ndvi, NdviThresholdLow) THEN <<RecNitrogen, RecFoliar>>
    ELSE IF Lt(ndvi, NdviThresholdHigh) THEN <<RecVariableRate>>
    ELSE << >>

MoistureRecommendations(soilMoisture) ==
    IF Lt(soilMoisture, MoistureThresholdLow) THEN <<RecIrrigation>>
    ELSE IF Gt(soilMoisture, MoistureThresholdHigh) THEN <<RecDrainage>>
    ELSE << >>

YieldGapRecommendations(yieldGap) ==
    IF Gt(yieldGap, YieldGapThreshold) THEN <<RecSoilTesting, RecPrecisionAg>>
    ELSE << >>

\* the three rule blocks push in source order onto one list
RuleRecommendationsMoistureFirst(ndvi, soilMoisture, yieldGap) ==
    MoistureRecommendations(soilMoisture) \o NdviRecommendations(ndvi)
        \o YieldGapRecommendations(yieldGap)

RuleRecommendations(ndvi, soilMoisture, yieldGap) ==
    NdviRecommendations(ndvi) \o MoistureRecommendations(soilMoisture)
        \o YieldGapRecommendations(yieldGap)

generateRecommendationsNoDefault(ndvi, soilMoisture, yieldGap) ==
    RuleRecommendations(ndvi, soilMoisture, yieldGap)

generateRecommendationsAlwaysDefault(ndvi, soilMoisture, yieldGap) ==
    RuleRecommendations(ndvi, soilMoisture, yieldGap) \o <<RecMaintain>>

generateRecommendations(ndvi, soilMoisture, yieldGap) ==
    LET recommendations == RuleRecommendations(ndvi, soilMoisture, yieldGap)
    IN  IF Len(recommendations) = 0 THEN <<RecMaintain>> ELSE recommendations

(***************************************************************************)
(* Arithmetic of the yield formulas                                        *)
(***************************************************************************)
Abs(x) == IF x < 0 THEN 0 - x ELSE x

Max(a, b) == IF a >= b THEN a ELSE b

\* parseFloat((num/den).toFixed(0)): nearest integer, halves away from zero
ToFixed(num, den) ==
    LET n == (2 * Abs(num) + den) \div (2 * den)
    IN  IF num < 0 THEN 0 - n ELSE n

\* Math.round(num/den) for an even den: floor(num/den + 0.5)
MathRound(num, den) == (num + den \div 2) \div den

\* Decimal pairs (c, c + 20 tenths) whose binary difference is not exactly 2:
\* 5.4 - 3.4 evaluates to 2.0000000000000004, 5.1 - 3.1 to 1.9999999999999996.
DifferenceAboveTwo == {24, 29, 34, 39, 63, 68, 73, 78, 141, 146, 151, 156}
DifferenceBelowTwo == {3, 8, 13, 18, 21, 26, 31, 36, 62, 67, 72, 77, 144, 149, 154, 159}

\* potential - current in hundredths; at a decimal difference of 2.0 (the
\* one value the code compares a gap with) the binary residue is kept
FloatSub(potential, current) ==
    IF ~IsNum(potential) \/ ~IsNum(current) THEN NaN
    ELSE 10 * (potential - current)
         + (IF potential - current = 20 /\ current \in DifferenceAboveTwo THEN 1
            ELSE IF potential - current = 20 /\ current \in DifferenceBelowTwo THEN 0 - 1
            ELSE 0)

(***************************************************************************)
(* Bounded inputs                                                          *)
(***************************************************************************)
\* square roots (in tenths) of the non-negative NDVI values of a field, so
\* that Math.pow(ndvi, 1.5) is a rational number
NdviRoots == {1, 2, 3, 4, 6, 7, 8, 9, 10}

FieldNdviValues == {Undefined, 0 - 1000, 0 - 500, 0} \cup {10 * q * q : q \in NdviRoots}

FieldMoistureValues ==
    {Undefined, 0, 100, 200, 249, 250, 300, 349, 350, 360, 400, 450, 500, 501,
     600, 601, 700, 1000}

Fields == [ndvi : FieldNdviValues, soilMoisture : FieldMoistureValues]

\* draws of Math.random(), in thousandths
RandomDraws == {0, 80, 100, 500, 995}

DefaultNdvi == 500
DefaultSoilMoisture == 300

(***************************************************************************)
(* Simulated remote yield sources                                          *)
(***************************************************************************)
EarthEngineRecommendations ==
    << "Implement precision irrigation based on soil moisture zones identified by satellite",
       "Apply variable rate nitrogen fertilizer based on NDVI zones",
       "Consider cover crops in low-productivity areas identified by multi-year analysis" >>

NASAHarvestRecommendations ==
    << "Apply precision irrigation based on soil moisture zones",
       "Optimize nitrogen application using variable rate technology",
       "Consider crop rotation next season to improve soil health" >>

OneFarmRecommendations ==
    << "Soil testing indicates potential potassium deficiency",
       "Consider cover crops during off-season to improve soil structure",
       "Monitor field edges for early detection of pest pressure" >>

\* fieldData built by fetchYieldPrediction
FieldData(f) ==
    [ndvi |-> OrDefault(f.ndvi, DefaultNdvi),
     soil_moisture |-> OrDefault(f.soilMoisture, DefaultSoilMoisture)]

\* value fetchFromEarthEngine resolves with
fetchFromEarthEngine(fieldData) ==
    LET ndvi == fieldData.ndvi
        sm == fieldData.soil_moisture
        \* 4.2 + ndvi * 4 * Math.min(1.2, sm / 30), in tenths
        currentYield == IF sm >= 360 THEN ToFixed(42000 + 48 * ndvi, 1000)
                        ELSE ToFixed(42 * 7500 + ndvi * sm, 7500)
        potentialYield == ToFixed(5 * currentYield, 4)
    IN  [current_yield |-> currentYield,
         potential_yield |-> potentialYield,
         recommendations |-> EarthEngineRecommendations,
         source |-> "Earth Engine"]

\* values fetchFromNASAHarvest resolves with, for two draws of Math.random()
fetchFromNASAHarvest(r1, r2) ==
    [current_yield |-> ToFixed(2 * r1 + 3000, 100),
     potential_yield |-> ToFixed(3 * r2 + 5000, 100),
     recommendations |-> NASAHarvestRecommendations,
     source |-> "NASA Harvest"]

fetchFromAgroMonitoring(r1, r2) ==
    [current_yield |-> ToFixed(2 * r1 + 3200, 100),
     potential_yield |-> ToFixed(25 * r2 + 52000, 1000),
     source |-> "AgroMonitoring"]

fetchFromOneFarm(r1, r2) ==
    [current_yield |-> ToFixed(18 * r1 + 34000, 1000),
     potential_yield |-> ToFixed(22 * r2 + 54000, 1000),
     recommendations |-> OneFarmRecommendations,
     source |-> "OneFarm"]

(***************************************************************************)
(* Synthetic model                                                         *)
(***************************************************************************)
\* Math.pow(ndvi, 1.5) in hundred-thousandths; NaN for a negative base.
\* 0.5 (the default NDVI) has the irrational power 0.35355...
Pow15(ndvi) ==
    IF ndvi < 0 THEN NaN
    ELSE IF ndvi = DefaultNdvi THEN 35355
    ELSE LET q == CHOOSE r \in NdviRoots : 10 * r * r = ndvi
         IN  100 * q * q * q

calculateYield(ndvi, soilMoisture) ==
    LET ndviPow == Pow15(ndvi)
        \* moistureFactor = 1 - |soilMoisture - 40| / 100, in thousandths
        moistureFactor == 1000 - Abs(soilMoisture - 400)
    IN  IF ndviPow = NaN THEN NaN
        \* Math.round((3.5 + ndviPow * 5 * moistureFactor * 2) * 10)
        ELSE MathRound(35 * 1000000 + ndviPow * moistureFactor, 1000000)

calculatePotentialYield(ndvi, soilMoisture) ==
    LET currentYield == calculateYield(ndvi, soilMoisture)
        \* improvement in hundredths of a tenth
        improvement == (IF ndvi < 700 THEN 3 * (700 - ndvi) ELSE 0)
                       + (IF soilMoisture < 350 \/ soilMoisture > 500 THEN 800 ELSE 0)
    IN  IF currentYield = NaN THEN NaN
        ELSE MathRound(Max(100 * currentYield + improvement, 120 * currentYield), 100)

(***************************************************************************)
(* yieldHistory                                                            *)
(***************************************************************************)
\* years new Date().getFullYear() gives
Years == {2025, 2026}

\* the five draws of Math.random() a history generator makes, in thousandths
YieldHistoryStreams == {<<3, 3, 3, 3, 3>>, <<997, 502, 3, 997, 502>>}

detectCropTypeBasedOnNDVI(ndvi) ==
    IF ndvi > 700 THEN "Corn"
    ELSE IF ndvi > 600 THEN "Rice"
    ELSE IF ndvi > 500 THEN "Wheat"
    ELSE IF ndvi > 400 THEN "Soybean"
    ELSE IF ndvi > 300 THEN "Barley"
    ELSE "Cotton"

\* baseYields, in tenths
BaseYields(cropType) ==
    CASE cropType = "Corn" -> 55
      [] cropType = "Wheat" -> 30
      [] cropType = "Soybean" -> 28
      [] cropType = "Rice" -> 42
      [] cropType = "Cotton" -> 8
      [] cropType = "Barley" -> 30

\* weatherFactor by year, in hundredths
WeatherFactors == <<90, 102, 95, 105, 98>>

YearValue(year, value) == [year |-> year, value |-> value]

YieldHistory(items) == [kind |-> "history", items |-> items]

\* baseYield * (1 + i * 0.05) * weatherFactor * (1 + (Math.random() * 0.1 - 0.05)),
\* to one decimal by toFixed(1); values in tenths.  The product is positive,
\* so the nearest tenth is floor(x + 0.5); 1 + i * 0.05 is (20 + i) / 20.
generateRealHistoricalData(cropType, year, stream) ==
    [k \in 1..5 |->
        YearValue(year - 4 + (k - 1),
                  MathRound(BaseYields(cropType) * (20 + (k - 1)) * WeatherFactors[k]
                                * (9500 + stream[k]),
                            20000000))]

\* currentYield * 0.85 + (i / 10) * currentYield + (Math.random() * 0.4 - 0.2),
\* rounded to one decimal; NaN for a currentYield of NaN
generateHistoricalYieldData(currentYield, year, stream) ==
    [k \in 1..5 |->
        YearValue(year - 4 + (k - 1),
                  IF ~IsNum(currentYield) THEN NaN
                  ELSE MathRound(850 * currentYield + 100 * (k - 1) * currentYield
                                     + 4 * stream[k] - 2000,
                                 1000))]

\* the prediction fallbackToSyntheticPrediction returns
fallbackToSyntheticPrediction(f) ==
    LET ndvi == OrDefault(f.ndvi, DefaultNdvi)
        soilMoisture == OrDefault(f.soilMoisture, DefaultSoilMoisture)
        currentYield == calculateYield(ndvi, soilMoisture)
        potentialYield == calculatePotentialYield(ndvi, soilMoisture)
        yieldGap == FloatSub(potentialYield, currentYield)
    IN  [kind |-> "prediction",
         currentYield |-> currentYield,
         potentialYield |-> potentialYield,
         yieldGap |-> yieldGap,
         recommendations |-> generateRecommendations(ndvi, soilMoisture, yieldGap),
         dataSource |-> "synthetic-model"]

(***************************************************************************)
(* fetchYieldPrediction: Earth Engine, then fallbackToOtherAPIs (NASA      *)
(* Harvest, AgroMonitoring, OneFarm), then the synthetic model.  Each      *)
(* action runs the code between two awaits.                                *)
(***************************************************************************)
EarthEngine == "earth-engine"
NASAHarvest == "nasa-harvest"
AgroMonitoring == "agro-monitoring"
OneFarm == "onefarm"
SyntheticModel == "synthetic-model"

RemoteSources == {EarthEngine, NASAHarvest, AgroMonitoring, OneFarm}

\* the dataSource each tier writes on the prediction it assembles
DataSourceTagNASAUntagged(tier) ==
    CASE tier = EarthEngine -> "earth-engine"
      [] tier = NASAHarvest -> "synthetic-model"
      [] tier = AgroMonitoring -> "agro-monitoring"
      [] tier = OneFarm -> "onefarm"
      [] tier = SyntheticModel -> "synthetic-model"

\* the dataSource each tier writes on the prediction it assembles; NASA
\* Harvest writes yieldData.source || "nasa-harvest"
DataSourceTag(tier) ==
    CASE tier = EarthEngine -> "earth-engine"
      [] tier = NASAHarvest ->
            LET source == fetchFromNASAHarvest(0, 0).source
            IN  IF source # "" THEN source ELSE "nasa-harvest"
      [] tier = AgroMonitoring -> "agro-monitoring"
      [] tier = OneFarm -> "onefarm"
      [] tier = SyntheticModel -> "synthetic-model"

RecArgs(ndvi, soilMoisture, yieldGap) ==
    [kind |-> "args", ndvi |-> ndvi, soilMoisture |-> soilMoisture, yieldGap |-> yieldGap]

RecList(items) == [kind |-> "list", items |-> items]

\* prediction assembled from the data of a remote source
Prediction(yieldData, recommendations, dataSource) ==
    [kind |-> "prediction",
     currentYield |-> yieldData.current_yield,
     potentialYield |-> yieldData.potential_yield,
     yieldGap |-> FloatSub(yieldData.potential_yield, yieldData.current_yield),
     recommendations |-> recommendations,
     dataSource |-> dataSource]

\* a call starts: fieldData is prepared and fetchFromEarthEngine is invoked
fetchYieldPrediction ==
    \E f \in Fields :
        /\ pc \in {"idle", "done"}
        /\ field' = f
        /\ attempted' = <<EarthEngine>>
        /\ failed' = {}
        /\ result' = Null
        /\ rejected' = FALSE
        /\ recIn' = Null
        /\ recOut' = Null
        /\ pc' = "awaitEarthEngine"
        /\ yieldHistory' = Null
        /\ UNCHANGED <<currentYear, rsVars, pageVars>>

EarthEngineResolved ==
    /\ pc = "awaitEarthEngine"
    /\ LET yieldData == fetchFromEarthEngine(FieldData(field))
       IN  result' = Prediction(yieldData, yieldData.recommendations, "earth-engine")
    /\ pc' = "done"
    /\ \E h \in YieldHistoryStreams :
           yieldHistory' = YieldHistory(generateRealHistoricalData(
               detectCropTypeBasedOnNDVI(FieldData(field).ndvi), currentYear, h))
    /\ UNCHANGED <<currentYear, rsVars, pageVars, field, attempted, failed, rejected, recIn, recOut>>

\* the catch of the Earth Engine try calls fallbackToOtherAPIs
EarthEngineRejectedSkipsToSynthetic ==
    /\ pc = "awaitEarthEngine"
    /\ failed' = failed \cup {EarthEngine}
    /\ attempted' = Append(attempted, SyntheticModel)
    /\ result' = fallbackToSyntheticPrediction(field)
    /\ pc' = "done"
    /\ \E h \in YieldHistoryStreams :
           yieldHistory' = YieldHistory(generateHistoricalYieldData(
               fallbackToSyntheticPrediction(field).currentYield, currentYear, h))
    /\ UNCHANGED <<currentYear, rsVars, pageVars, field, rejected, recIn, recOut>>

EarthEngineRejected ==
    /\ pc = "awaitEarthEngine"
    /\ failed' = failed \cup {EarthEngine}
    /\ attempted' = Append(attempted, NASAHarvest)
    /\ pc' = "awaitNASAHarvest"
    /\ UNCHANGED <<yieldHistory, currentYear, rsVars, pageVars, field, result, rejected, recIn, recOut>>

NASAHarvestResolved ==
    \E r1, r2 \in RandomDraws :
        /\ pc = "awaitNASAHarvest"
        /\ LET yieldData == fetchFromNASAHarvest(r1, r2)
           IN  result' = Prediction(yieldData, yieldData.recommendations, yieldData.source)
        /\ pc' = "done"
        /\ \E h \in YieldHistoryStreams :
               yieldHistory' = YieldHistory(generateRealHistoricalData(
                   detectCropTypeBasedOnNDVI(FieldData(field).ndvi), currentYear, h))
        /\ UNCHANGED <<currentYear, rsVars, pageVars, field, attempted, failed, rejected, recIn, recOut>>

NASAHarvestRejected ==
    /\ pc = "awaitNASAHarvest"
    /\ failed' = failed \cup {NASAHarvest}
    /\ attempted' = Append(attempted, AgroMonitoring)
    /\ pc' = "awaitAgroMonitoring"
    /\ UNCHANGED <<yieldHistory, currentYear, rsVars, pageVars, field, result, rejected, recIn, recOut>>

AgroMonitoringResolved ==
    \E r1, r2 \in RandomDraws :
        /\ pc = "awaitAgroMonitoring"
        /\ LET yieldData == fetchFromAgroMonitoring(r1, r2)
               ndvi == OrDefault(field.ndvi, DefaultNdvi)
               soilMoisture == OrDefault(field.soilMoisture, DefaultSoilMoisture)
               yieldGap == FloatSub(yieldData.potential_yield, yieldData.current_yield)
               recommendations == generateRecommendations(ndvi, soilMoisture, yieldGap)
           IN  /\ recIn' = RecArgs(ndvi, soilMoisture, yieldGap)
               /\ recOut' = RecList(recommendations)
               /\ result' = Prediction(yieldData, recommendations, "agro-monitoring")
        /\ pc' = "done"
        /\ \E h \in YieldHistoryStreams :
               yieldHistory' = YieldHistory(generateRealHistoricalData(
                   detectCropTypeBasedOnNDVI(FieldData(field).ndvi), currentYear, h))
        /\ UNCHANGED <<currentYear, rsVars, pageVars, field, attempted, failed, rejected>>

AgroMonitoringRejected ==
    /\ pc = "awaitAgroMonitoring"
    /\ failed' = failed \cup {AgroMonitoring}
    /\ attempted' = Append(attempted, OneFarm)
    /\ pc' = "awaitOneFarm"
    /\ UNCHANGED <<yieldHistory, currentYear, rsVars, pageVars, field, result, rejected, recIn, recOut>>

OneFarmResolved ==
    \E r1, r2 \in RandomDraws :
        /\ pc = "awaitOneFarm"
        /\ LET yieldData == fetchFromOneFarm(r1, r2)
           IN  result' = Prediction(yieldData, yieldData.recommendations, "onefarm")
        /\ pc' = "done"
        /\ \E h \in YieldHistoryStreams :
               yieldHistory' = YieldHistory(generateRealHistoricalData(
                   detectCropTypeBasedOnNDVI(FieldData(field).ndvi), currentYear, h))
        /\ UNCHANGED <<currentYear, rsVars, pageVars, field, attempted, failed, rejected, recIn, recOut>>

\* fallbackToOtherAPIs throws "All yield prediction APIs failed"; the outer
\* catch of fetchYieldPrediction returns fallbackToSyntheticPrediction(field)
OneFarmRejectedUncaught ==
    /\ pc = "awaitOneFarm"
    /\ failed' = failed \cup {OneFarm}
    /\ rejected' = TRUE
    /\ pc' = "done"
    /\ UNCHANGED <<yieldHistory, currentYear, rsVars, pageVars, field, attempted, result, recIn, recOut>>

OneFarmRejected ==
    /\ pc = "awaitOneFarm"
    /\ failed' = failed \cup {OneFarm}
    /\ attempted' = Append(attempted, SyntheticModel)
    /\ LET prediction == fallbackToSyntheticPrediction(field)
       IN  /\ recIn' = RecArgs(OrDefault(field.ndvi, DefaultNdvi),
                               OrDefault(field.soilMoisture, DefaultSoilMoisture),
                               prediction.yieldGap)
           /\ recOut' = RecList(prediction.recommendations)
           /\ result' = prediction
    /\ pc' = "done"
    /\ \E h \in YieldHistoryStreams :
           yieldHistory' = YieldHistory(generateHistoricalYieldData(
               fallbackToSyntheticPrediction(field).currentYield, currentYear, h))
    /\ UNCHANGED <<currentYear, rsVars, pageVars, field, rejected>>

(***************************************************************************)
(* fetchRemoteSensingData and the draw.create handler of the map           *)
(***************************************************************************)
MaxVertices == 4
MaxEvents == 2

Vertices == {<<0, 0>>, <<0, 1>>, <<1, 0>>}

Rings == UNION {[1..n -> Vertices] : n \in 0..MaxVertices}

\* rings of a drawn polygon feature: closed, at least a triangle, and no
\* vertex repeated by the next one
DrawnRings ==
    {r \in Rings : /\ Len(r) >= 4
                   /\ r[1] = r[Len(r)]
                   /\ \A k \in 1..(Len(r) - 1) : r[k] # r[k + 1]}

RemoteNdviValues == {Undefined, 0 - 200, 50, 100, 450, 900, 950}
RemoteMoistureValues == {Undefined, 0, 300, 1200}

Bodies ==
    {[kind |-> "unparsable"], [kind |-> "null"]}
    \cup {[kind |-> "object", ndvi |-> n, soil_moisture |-> m] :
              n \in RemoteNdviValues, m \in RemoteMoistureValues}

Statuses == {200, 299, 404, 500}

\* a rejected fetch is a TypeError; its message is 'Failed to fetch' in
\* Chromium and another text in other engines
RemoteOutcomes ==
    {[kind |-> "transport", failedToFetch |-> b] : b \in BOOLEAN}
    \cup {[kind |-> "response", status |-> st, body |-> bd] : st \in Statuses, bd \in Bodies}

\* response.ok
Ok(status) == status >= 200 /\ status <= 299

NoDefaults == [kind |-> "none"]

\* Math.random() * (0.9 - 0.1) + 0.1 and Math.random() * 40 + 10
SimulatedNdvi(r) == (800 * r) \div 1000 + 100
SimulatedSoilMoisture(r) == (400 * r) \div 1000 + 100

SensingData(ndvi, soilMoisture) ==
    [kind |-> "data", ndvi |-> ndvi, soil_moisture |-> soilMoisture]

ClosedRingAlwaysAppend(c) ==
    IF Len(c) > 0 THEN Append(c, c[1]) ELSE c

\* the ring put in the request body: the first vertex is appended to an open ring
ClosedRing(c) ==
    IF Len(c) > 0 /\ (c[1][1] # c[Len(c)][1] \/ c[1][2] # c[Len(c)][2])
    THEN Append(c, c[1]) ELSE c

\* what fetchRemoteSensingData returns once the request has settled with o;
\* r1 and r2 are the draws of the simulated fallback
SettledResultAnyTransportFailure(o, r1, r2) ==
    IF o.kind = "transport"
    THEN SensingData(SimulatedNdvi(r1), SimulatedSoilMoisture(r2))
    ELSE IF ~Ok(o.status) THEN Null
    ELSE IF o.body.kind = "unparsable" THEN Null
    ELSE IF o.body.kind = "null" THEN Null
    ELSE SensingData(o.body.ndvi, o.body.soil_moisture)

SettledResult(o, r1, r2) ==
    IF o.kind = "transport"
    THEN IF o.failedToFetch
         THEN SensingData(SimulatedNdvi(r1), SimulatedSoilMoisture(r2))
         ELSE Null
    ELSE IF ~Ok(o.status) THEN Null
    ELSE IF o.body.kind = "unparsable" THEN Null
    ELSE IF o.body.kind = "null" THEN Null
    ELSE SensingData(o.body.ndvi, o.body.soil_moisture)

\* the rest of the caller once fetchRemoteSensingData has returned v:
\* handleDrawCreate passes a new field to onFieldCreated
NewFieldAfter(who, d, v) ==
    IF who = "create"
    THEN [kind |-> "field",
          ndvi |-> IF v # Null THEN v.ndvi ELSE d.ndvi,
          soilMoisture |-> IF v # Null THEN v.soil_moisture ELSE d.soilMoisture]
    ELSE Null

\* Math.round(turf.area(feature) * 100) / 100 of a drawn feature; twice the
\* planar area of its ring stands for it
RECURSIVE Shoelace(_, _)
Shoelace(ring, k) ==
    IF k >= Len(ring) THEN 0
    ELSE ring[k][1] * ring[k + 1][2] - ring[k + 1][1] * ring[k][2] + Shoelace(ring, k + 1)

RoundedArea(ring) == Abs(Shoelace(ring, 1))

\* the updates handleDrawUpdate builds once fetchRemoteSensingData has
\* returned v: ndvi and soilMoisture are set only when they are not undefined
Updates(ring, v, now) ==
    [kind |-> "updates", area |-> RoundedArea(ring), polygon |-> ring,
     lastUpdated |-> now,
     ndvi |-> IF v # Null THEN v.ndvi ELSE Undefined,
     soilMoisture |-> IF v # Null THEN v.soil_moisture ELSE Undefined]

\* handleDrawUpdate passes them to onFieldUpdated when it was given one
FieldUpdatesAfter(who, w, ring, v, now) ==
    IF who = "update" /\ w THEN Updates(ring, v, now) ELSE Null

ToastFetching == "Fetching real NDVI and soil moisture data..."
ToastUpdating == "Updating NDVI and soil moisture data..."
ToastReceived == "Received real NDVI and soil moisture data"
ToastSimulated == "Using simulated data as fallback"
ToastUpdated == "Field updated"
ToastDeleted == "Field deleted from map"
NoToast == "none"

\* the toast a handler shows first
ToastAtStart(who) ==
    IF who = "create" THEN ToastFetching
    ELSE IF who = "update" THEN ToastUpdating
    ELSE toast

\* the toast a handler shows last, once fetchRemoteSensingData has returned v
ToastAfter(who, v) ==
    IF who = "create" THEN (IF v # Null THEN ToastReceived ELSE ToastSimulated)
    ELSE IF who = "update" THEN ToastUpdated
    ELSE toast

\* the synchronous part of fetchRemoteSensingData(c): the guards and the fetch
StartFetchEmptyGuardOnly(c, who, d, w) ==
    /\ rsPc = "idle"
    /\ who # "direct" => events < MaxEvents
    /\ coordinates' = c
    /\ passedCoords' = c
    /\ caller' = who
    /\ defaults' = d
    /\ wired' = w
    /\ estimatorCalls' = estimatorCalls + 1
    /\ events' = IF who = "direct" THEN events ELSE events + 1
    /\ drawEvent' = IF who = "direct" THEN drawEvent ELSE who
    /\ response' = Null
    /\ rsRejected' = FALSE
    /\ IF Len(c) = 0
       THEN /\ rsResult' = Null
            /\ requestCoords' = Null
            /\ netRequests' = 0
            /\ newField' = NewFieldAfter(who, d, Null)
            /\ fieldUpdates' = FieldUpdatesAfter(who, w, c, Null, clock)
            /\ toast' = ToastAfter(who, Null)
            /\ rsPc' = "done"
       ELSE /\ rsResult' = Null
            /\ requestCoords' = [kind |-> "ring", coords |-> ClosedRing(c)]
            /\ netRequests' = 1
            /\ newField' = Null
            /\ fieldUpdates' = Null
            /\ toast' = ToastAtStart(who)
            /\ rsPc' = "awaitFetch"
    /\ UNCHANGED <<yieldVars, recVars, pageVars>>

StartFetch(c, who, d, w) ==
    /\ rsPc = "idle"
    /\ who # "direct" => events < MaxEvents
    /\ coordinates' = c
    /\ passedCoords' = c
    /\ caller' = who
    /\ defaults' = d
    /\ wired' = w
    /\ estimatorCalls' = estimatorCalls + 1
    /\ events' = IF who = "direct" THEN events ELSE events + 1
    /\ drawEvent' = IF who = "direct" THEN drawEvent ELSE who
    /\ response' = Null
    /\ rsRejected' = FALSE
    /\ IF Len(c) = 0 \/ Len(c) < 3
       THEN /\ rsResult' = Null
            /\ requestCoords' = Null
            /\ netRequests' = 0
            /\ newField' = NewFieldAfter(who, d, Null)
            /\ fieldUpdates' = FieldUpdatesAfter(who, w, c, Null, clock)
            /\ toast' = ToastAfter(who, Null)
            /\ rsPc' = "done"
       ELSE /\ rsResult' = Null
            /\ requestCoords' = [kind |-> "ring", coords |-> ClosedRing(c)]
            /\ netRequests' = 1
            /\ newField' = Null
            /\ fieldUpdates' = Null
            /\ toast' = ToastAtStart(who)
            /\ rsPc' = "awaitFetch"
    /\ UNCHANGED <<yieldVars, recVars, pageVars>>

\* fetchRemoteSensingData called on its own
fetchRemoteSensingData ==
    \E c \in Rings : StartFetch(c, "direct", NoDefaults, FALSE)

\* draw.create: the handler draws its default values, then awaits the estimator
handleDrawCreate ==
    \E c \in DrawnRings, r1, r2 \in RandomDraws :
        StartFetch(c, "create",
                   [kind |-> "drawn", ndvi |-> SimulatedNdvi(r1),
                    soilMoisture |-> SimulatedSoilMoisture(r2)], FALSE)

\* draw.update: the handler awaits the estimator for the redrawn ring
handleDrawUpdate ==
    \E c \in DrawnRings, w \in BOOLEAN : StartFetch(c, "update", NoDefaults, w)

handleDrawDeleteRefetches ==
    \E c \in DrawnRings : StartFetch(c, "delete", NoDefaults, FALSE)

\* draw.delete: a toast and nothing else
handleDrawDelete ==
    /\ events < MaxEvents
    /\ events' = events + 1
    /\ drawEvent' = "delete"
    /\ toast' = ToastDeleted
    /\ UNCHANGED <<coordinates, rsPc, caller, defaults, requestCoords, netRequests,
                   response, rsResult, rsRejected, newField, passedCoords,
                   estimatorCalls, wired, fieldUpdates, yieldVars, recVars, pageVars>>

\* Math.random() is called only in the 'Failed to fetch' branch of the catch
FallbackDraws(o) ==
    IF o.kind = "transport" /\ o.failedToFetch THEN RandomDraws ELSE {0}

\* the request settles; fetchRemoteSensingData returns and its caller resumes
FetchSettled ==
    \E o \in RemoteOutcomes : \E r1, r2 \in FallbackDraws(o) :
        /\ rsPc = "awaitFetch"
        /\ response' = o
        /\ rsResult' = SettledResult(o, r1, r2)
        /\ newField' = NewFieldAfter(caller, defaults, SettledResult(o, r1, r2))
        /\ fieldUpdates' = FieldUpdatesAfter(caller, wired, coordinates,
                                             SettledResult(o, r1, r2), clock)
        /\ toast' = ToastAfter(caller, SettledResult(o, r1, r2))
        /\ rsPc' = "done"
        /\ UNCHANGED <<coordinates, caller, defaults, requestCoords, netRequests,
                       rsRejected, passedCoords, estimatorCalls, events, drawEvent,
                       wired, yieldVars, recVars, pageVars>>

(***************************************************************************)
(* generateHistoricalData: daily points ending today                       *)
(*                                                                         *)
(* A draw of Math.random() is held here in ten-thousandths, the sum a      *)
(* point is rounded from in millionths (NDVI) or in ten-thousandths of a   *)
(* percent (soil moisture), an NDVI point in thousandths and a             *)
(* soil-moisture point in hundredths of a percent.                         *)
(***************************************************************************)
StreamLen == 2

HistoryDraws == {1, 2502, 7503, 9999}

\* the values Math.random() returns, call after call (repeated in a cycle)
RandomStreams == [1..StreamLen -> HistoryDraws]

\* the call of Math.random() that follows k earlier calls
MathRandom(stream, k) == stream[(k % Len(stream)) + 1]

Min(a, b) == IF a <= b THEN a ELSE b

IsLeapYear(y) == (y % 4 = 0 /\ y % 100 # 0) \/ y % 400 = 0

\* months are numbered from 0, as Date.getMonth() numbers them
DaysInMonth(y, m) ==
    IF m = 1 THEN (IF IsLeapYear(y) THEN 29 ELSE 28)
    ELSE IF m \in {3, 5, 8, 10} THEN 30
    ELSE 31

Date(y, m, d) == [year |-> y, month |-> m, date |-> d]

PrevDay(d) ==
    IF d.date > 1 THEN Date(d.year, d.month, d.date - 1)
    ELSE IF d.month > 0 THEN Date(d.year, d.month - 1, DaysInMonth(d.year, d.month - 1))
    ELSE Date(d.year - 1, 11, 31)

RECURSIVE subDays(_, _)
subDays(date, amount) ==
    IF amount = 0 THEN date ELSE subDays(PrevDay(date), amount - 1)

MonthNames ==
    <<"Jan", "Feb", "Mar", "Apr", "May", "Jun",
      "Jul", "Aug", "Sep", "Oct", "Nov", "Dec">>

\* format(date, 'MMM dd, yyyy')
format(date) == [MMM |-> MonthNames[date.month + 1], dd |-> date.date, yyyy |-> date.year]

\* 0.15 * Math.sin((month + 1) / 12 * Math.PI * 2), in millionths
SeasonalFactor(month) ==
    <<75000, 129904, 150000, 129904, 75000, 0,
      0 - 75000, 0 - 129904, 0 - 150000, 0 - 129904, 0 - 75000, 0>>[month + 1]

HistoryDays == 30

\* parseFloat(value.toFixed(2)) of an NDVI sum, in thousandths
NdviPoint(value) == 10 * ToFixed(value, 10000)

\* parseFloat(value.toFixed(2)) of a soil-moisture sum, in hundredths
MoisturePoint(value) == ToFixed(value, 100)

NdviValueUnclamped(f, date, r) ==
    OrDefault(f.ndvi, 500) * 1000 + SeasonalFactor(date.month) + (r - 5000) * 5

NdviValue(f, date, r) ==
    LET baseValue == OrDefault(f.ndvi, 500) * 1000
        seasonalFactor == SeasonalFactor(date.month)
        dailyVariation == (r - 5000) * 5
    IN  Min(950000, Max(100000, baseValue + seasonalFactor + dailyVariation))

\* r1 is the draw of the rainfall (taken on rain days only), r2 the later draw
MoistureValue(f, date, i, res, r1, r2) ==
    LET baseMoisture == OrDefault(f.soilMoisture, 250) * 1000
        rainfall == IF date.date % 7 = 0 THEN 10 * r1 ELSE 0
        decline == IF i > 0 /\ Len(res) > 0 THEN 5 * res[Len(res)].value ELSE 0
    IN  Min(450000, Max(50000, baseMoisture + rainfall - decline + (r2 - 5000) * 3))

HistoryPoint(dateStr, value) == [date |-> dateStr, value |-> value]

HistoryList(items) == [kind |-> "list", items |-> items]

\* one pass of the loop body of generateHistoricalData: a point for the
\* day i days before today is pushed and i is decremented
HistoryLoopBody ==
    /\ histIn.kind = "args"
    /\ histOut = Null
    /\ histI >= 0
    /\ LET date == subDays(histIn.today, histI)
           dateStr == format(date)
           rain == date.date % 7 = 0
       IN  IF histIn.dataType = "ndvi"
           THEN /\ histResult' = Append(histResult, HistoryPoint(dateStr,
                                     NdviPoint(NdviValue(histIn.field, date,
                                         MathRandom(histIn.stream, histCalls)))))
                /\ histCalls' = histCalls + 1
           ELSE IF rain
           THEN /\ histResult' = Append(histResult, HistoryPoint(dateStr,
                                     MoisturePoint(MoistureValue(histIn.field, date, histI,
                                         histResult, MathRandom(histIn.stream, histCalls),
                                         MathRandom(histIn.stream, histCalls + 1)))))
                /\ histCalls' = histCalls + 2
           ELSE /\ histResult' = Append(histResult, HistoryPoint(dateStr,
                                     MoisturePoint(MoistureValue(histIn.field, date, histI,
                                         histResult, 0,
                                         MathRandom(histIn.stream, histCalls)))))
                /\ histCalls' = histCalls + 1
    /\ histI' = histI - 1
    /\ UNCHANGED <<histIn, histOut, yieldVars, recVars, rsVars, storeVars, saveVars, fieldsVars,
                   redrawVars, detailsVars, pureVars, createVars>>

\* the loop has ended: generateHistoricalData returns result
HistoryReturn ==
    /\ histIn.kind = "args"
    /\ histOut = Null
    /\ histI < 0
    /\ histOut' = HistoryList(histResult)
    /\ UNCHANGED <<histIn, histI, histResult, histCalls, yieldVars, recVars, rsVars,
                   storeVars, saveVars, fieldsVars,
                   redrawVars, detailsVars, pureVars, createVars>>

HistoryNdviValues == {Undefined, NaN, 0 - 500, 0, 100, 300, 500, 800, 900, 950, 1500}
HistoryMoistureValues == {Undefined, 0, 30, 100, 250, 400, 450, 600}

\* dates whose 31-day window crosses a year, a 28-day February, a leap day,
\* and ones inside long months
Todays ==
    {Date(2025, 0, 10), Date(2025, 2, 15), Date(2024, 2, 1),
     Date(2025, 6, 31), Date(2025, 11, 31)}

HistoryArgs(f, dataType, today, stream) ==
    [kind |-> "args", field |-> f, dataType |-> dataType, today |-> today,
     stream |-> stream]

HistoryInputs ==
    {HistoryArgs([ndvi |-> n, soilMoisture |-> Undefined], "ndvi", t, s) :
         n \in HistoryNdviValues, t \in Todays, s \in RandomStreams}
    \cup {HistoryArgs([ndvi |-> Undefined, soilMoisture |-> m], "soilMoisture", t, s) :
              m \in HistoryMoistureValues, t \in Todays, s \in RandomStreams}

\* generateHistoricalData entered: const result = [], let i = 30
HistoryEntered ==
    /\ histOut = Null
    /\ histI = HistoryDays
    /\ histResult = << >>
    /\ histCalls = 0

InitHistoryIdle ==
    /\ histIn = Null
    /\ HistoryEntered

(***************************************************************************)
(* The stores of Field records: the browser's localStorage items           *)
(* 'local_fields' and 'selected_field', and the remote table 'fields'.     *)
(* Times are ticks of a clock that advances with every operation.          *)
(***************************************************************************)
MaxClock == 3
MaxFieldId == 2

FieldIds == 1..MaxFieldId
FieldNames == {"North", "South"}

\* a Field record; a property that is not set reads as undefined
StoredField(id, name, created_at, lastUpdated) ==
    [kind |-> "field", id |-> id, name |-> name, created_at |-> created_at,
     lastUpdated |-> lastUpdated]

\* JSON.stringify and JSON.parse of a localStorage item
JSONStringify(v) == [kind |-> "json", value |-> v]
JSONParse(item) == item.value

\* fields.findIndex(f => f.id === id), counted from 1; -1 when there is none
FindIndex(list, id) ==
    IF \E k \in 1..Len(list) : list[k].id = id
    THEN CHOOSE k \in 1..Len(list) :
             list[k].id = id /\ \A j \in 1..(k - 1) : list[j].id # id
    ELSE 0 - 1

UpsertByIdAlwaysPush(list, updatedField) == Append(list, updatedField)

\* replace the record of the same id, or push
UpsertById(list, updatedField) ==
    LET index == FindIndex(list, updatedField.id)
    IN  IF index # 0 - 1 THEN [list EXCEPT ![index] = updatedField]
        ELSE Append(list, updatedField)

\* records FieldDetails hands to saveFieldData
SaveInputs ==
    {StoredField(i, n, 0, lu) : i \in FieldIds, n \in FieldNames, lu \in {Undefined, 0}}

\* outcomes of a request to the remote store: it answers without an error,
\* it answers with an error, or the promise rejects
StoreOutcomes == {"ok", "error", "throws"}

\* saveFieldData up to its first await: the record is stamped and written to
\* both localStorage items
SaveFieldDataCalled ==
    \E f \in SaveInputs :
        /\ savePc \in {"idle", "returned"}
        /\ clock < MaxClock
        /\ clock' = clock + 1
        /\ LET updatedField == [f EXCEPT !.lastUpdated = clock + 1]
               allFields == local_fields
               list == IF allFields # Null THEN JSONParse(allFields) ELSE << >>
           IN  /\ local_fields' = JSONStringify(UpsertById(list, updatedField))
               /\ selected_field' = JSONStringify(updatedField)
               /\ saveField' = updatedField
        /\ saveOutcome' = "pending"
        /\ saveReturn' = Null
        /\ saveThrew' = FALSE
        /\ savePc' = "awaitConnection"
        /\ UNCHANGED <<remoteFields, yieldVars, recVars, rsVars, histVars, fieldsVars,
                   redrawVars, detailsVars, pureVars, createVars>>

\* checkSupabaseConnection settles; it returns false on an error and on a
\* rejection alike, and saveFieldData then returns true ('saved locally')
CheckSupabaseConnectionSettled ==
    \E o \in StoreOutcomes :
        /\ savePc = "awaitConnection"
        /\ IF o = "ok"
           THEN /\ savePc' = "awaitUpsert"
                /\ UNCHANGED <<saveOutcome, saveReturn>>
           ELSE /\ savePc' = "returned"
                /\ saveOutcome' = "unreachable"
                /\ saveReturn' = [kind |-> "boolean", value |-> TRUE]
        /\ UNCHANGED <<local_fields, selected_field, remoteFields, clock, saveField,
                       saveThrew, yieldVars, recVars, rsVars, histVars, fieldsVars,
                   redrawVars, detailsVars, pureVars, createVars>>

UpsertSettledUncaught ==
    \E o \in StoreOutcomes :
        /\ savePc = "awaitUpsert"
        /\ savePc' = "returned"
        /\ IF o = "ok"
           THEN /\ remoteFields' = UpsertById(remoteFields, saveField)
                /\ saveOutcome' = "saved"
                /\ saveReturn' = [kind |-> "boolean", value |-> TRUE]
                /\ UNCHANGED saveThrew
           ELSE IF o = "error"
           THEN /\ saveOutcome' = "upsertFailed"
                /\ saveReturn' = [kind |-> "boolean", value |-> FALSE]
                /\ UNCHANGED <<remoteFields, saveThrew>>
           ELSE /\ saveOutcome' = "upsertFailed"
                /\ saveThrew' = TRUE
                /\ UNCHANGED <<remoteFields, saveReturn>>
        /\ UNCHANGED <<local_fields, selected_field, clock, saveField,
                       yieldVars, recVars, rsVars, histVars, fieldsVars,
                   redrawVars, detailsVars, pureVars, createVars>>

\* the upsert settles; an error is answered with false, and a rejection is
\* caught by the catch around the whole body, which also returns false
UpsertSettled ==
    \E o \in StoreOutcomes :
        /\ savePc = "awaitUpsert"
        /\ savePc' = "returned"
        /\ IF o = "ok"
           THEN /\ remoteFields' = UpsertById(remoteFields, saveField)
                /\ saveOutcome' = "saved"
                /\ saveReturn' = [kind |-> "boolean", value |-> TRUE]
           ELSE /\ saveOutcome' = "upsertFailed"
                /\ saveReturn' = [kind |-> "boolean", value |-> FALSE]
                /\ UNCHANGED remoteFields
        /\ UNCHANGED <<local_fields, selected_field, clock, saveField, saveThrew,
                       yieldVars, recVars, rsVars, histVars, fieldsVars,
                   redrawVars, detailsVars, pureVars, createVars>>

InitSaveIdle ==
    /\ savePc = "idle"
    /\ saveField = Null
    /\ saveOutcome = "none"
    /\ saveReturn = Null
    /\ saveThrew = FALSE

\* nothing stored yet, in the browser or remotely
InitStoreEmpty ==
    /\ local_fields = Null
    /\ selected_field = Null
    /\ remoteFields = << >>
    /\ clock = 0

(***************************************************************************)
(* The Fields page: the ['fields'] query and the create, rename and delete *)
(* mutations.  A mutation is taken with the request it awaits and with its *)
(* onSuccess or onError callback.                                          *)
(***************************************************************************)
\* a request of the page to the remote store answers with or without an error
RequestOutcomes == {"ok", "error"}

NoOp == [op |-> "none", id |-> 0, at |-> 0, path |-> "none", outcome |-> "none"]

Op(op, id, at, path, outcome) ==
    [op |-> op, id |-> id, at |-> at, path |-> path, outcome |-> outcome]

\* the data of a query: an array once there is data
QueryData(list) == [kind |-> "list", items |-> list]

\* const displayedFields = fields || localFields
displayedFields == IF fields # Null THEN fields.items ELSE localFields

DisplayedIds == {displayedFields[k].id : k \in 1..Len(displayedFields)}

\* the record handleDrawCreate hands to onFieldCreated carries a name, an
\* area, the polygon and the two metrics; lastUpdated is not among them
DrawnField(name) == [name |-> name, lastUpdated |-> Undefined]

\* { ...newField, id: generateId(), created_at: new Date().toISOString() }
LocalField(drawn, id, now) ==
    StoredField(id, drawn.name, now, drawn.lastUpdated)

\* list.filter(field => field.id !== id)
RECURSIVE FilterOut(_, _)
FilterOut(list, id) ==
    IF Len(list) = 0 THEN << >>
    ELSE IF list[1].id = id THEN FilterOut(Tail(list), id)
    ELSE <<list[1]>> \o FilterOut(Tail(list), id)

\* 'selected_field' after a rename: replaced when it holds the renamed field
SelectedAfterRename(id, updatedField) ==
    IF selected_field # Null /\ JSONParse(selected_field).id = id
    THEN JSONStringify(updatedField) ELSE selected_field

SelectedAfterDeleteAlwaysRemoves(id) == Null

\* 'selected_field' after a delete: removed when it holds the deleted field
SelectedAfterDelete(id) ==
    IF selected_field # Null /\ JSONParse(selected_field).id = id
    THEN Null ELSE selected_field

\* the queryFn of the ['fields'] query has settled
queryFn ==
    \E o \in RequestOutcomes :
        /\ IF o = "error"
           THEN /\ useLocalStorage' = TRUE
                /\ fields' = QueryData(localFields)
           ELSE /\ fields' = QueryData(remoteFields)
                /\ UNCHANGED useLocalStorage
        /\ refetched' = TRUE
        /\ UNCHANGED <<localFields, issued, lastOp, storeVars, saveVars,
                       yieldVars, recVars, rsVars, histVars,
                   redrawVars, detailsVars, pureVars, createVars>>

\* the page is loaded anew: state is reset and the mount effect reads
\* 'local_fields'
FieldsMounted ==
    /\ localFields' = IF local_fields # Null THEN JSONParse(local_fields) ELSE << >>
    /\ useLocalStorage' = FALSE
    /\ fields' = QueryData(<< >>)
    /\ refetched' = FALSE
    /\ UNCHANGED <<issued, lastOp, storeVars, saveVars, yieldVars, recVars, rsVars,
                   histVars,
                   redrawVars, detailsVars, pureVars, createVars>>

\* createField with the record of a newly drawn polygon
createField ==
    \E name \in FieldNames, o \in RequestOutcomes, dbStamp \in BOOLEAN :
        LET id == issued + 1
            now == clock + 1
            localField == LocalField(DrawnField(name), id, now)
            updatedFields == Append(localFields, localField)
        IN  /\ clock < MaxClock
            /\ issued < MaxFieldId
            /\ clock' = now
            /\ issued' = id
            /\ refetched' = FALSE
            /\ IF useLocalStorage \/ o = "error"
               THEN /\ useLocalStorage' = TRUE
                    /\ local_fields' = JSONStringify(updatedFields)
                    /\ localFields' = updatedFields
                    /\ lastOp' = Op("create", id, now,
                                    IF useLocalStorage THEN "local" ELSE "fallback",
                                    "success")
                    /\ UNCHANGED remoteFields
               ELSE \* the table fills in id and created_at; whether it also
                    \* stamps lastUpdated is not fixed by this repository
                    /\ remoteFields' = Append(remoteFields,
                           StoredField(id, name, now,
                                       IF dbStamp THEN now ELSE Undefined))
                    /\ lastOp' = Op("create", id, now, "remote", "success")
                    /\ UNCHANGED <<useLocalStorage, local_fields, localFields>>
            /\ UNCHANGED <<fields, selected_field, saveVars, yieldVars, recVars,
                           rsVars, histVars,
                   redrawVars, detailsVars, pureVars, createVars>>

\* the part of updateField that works on localFields: used in local mode and
\* after an error of the remote update
RenameLocally(id, name, now, path) ==
    LET fieldIndex == FindIndex(localFields, id)
    IN  IF fieldIndex = 0 - 1
        THEN \* throw new Error('Field not found'): onError shows the toast
             /\ lastOp' = Op("rename", id, now, path, "error")
             /\ UNCHANGED <<local_fields, localFields, selected_field>>
        ELSE LET updatedField == [localFields[fieldIndex] EXCEPT
                                      !.name = name, !.lastUpdated = now]
                 updatedFields == [localFields EXCEPT ![fieldIndex] = updatedField]
             IN  /\ local_fields' = JSONStringify(updatedFields)
                 /\ localFields' = updatedFields
                 /\ selected_field' = SelectedAfterRename(id, updatedField)
                 /\ lastOp' = Op("rename", id, now, path, "success")

\* updateField: the name of a listed field is saved
updateField ==
    \E id \in DisplayedIds, name \in FieldNames, o \in RequestOutcomes :
        LET now == clock + 1
            row == FindIndex(remoteFields, id)
        IN  /\ clock < MaxClock
            /\ clock' = now
            /\ refetched' = FALSE
            /\ IF useLocalStorage
               THEN /\ RenameLocally(id, name, now, "local")
                    /\ UNCHANGED <<useLocalStorage, remoteFields>>
               ELSE IF o = "error" \/ row = 0 - 1
               THEN \* .single() answers with an error when no row matched
                    /\ useLocalStorage' = TRUE
                    /\ RenameLocally(id, name, now, "fallback")
                    /\ UNCHANGED remoteFields
               ELSE LET data == [remoteFields[row] EXCEPT
                                     !.name = name, !.lastUpdated = now]
                        updatedFields ==
                            [k \in 1..Len(localFields) |->
                                IF localFields[k].id = id THEN data ELSE localFields[k]]
                    IN  /\ remoteFields' = [remoteFields EXCEPT ![row] = data]
                        /\ local_fields' = JSONStringify(updatedFields)
                        /\ localFields' = updatedFields
                        /\ selected_field' = SelectedAfterRename(id, data)
                        /\ lastOp' = Op("rename", id, now, "remote", "success")
                        /\ UNCHANGED useLocalStorage
            /\ UNCHANGED <<fields, issued, saveVars, yieldVars, recVars, rsVars,
                           histVars,
                   redrawVars, detailsVars, pureVars, createVars>>

\* deleteField: a listed field is deleted
deleteField ==
    \E id \in DisplayedIds, o \in RequestOutcomes :
        LET now == clock + 1
            updatedFields == FilterOut(localFields, id)
        IN  /\ clock < MaxClock
            /\ clock' = now
            /\ refetched' = FALSE
            /\ local_fields' = JSONStringify(updatedFields)
            /\ localFields' = updatedFields
            /\ selected_field' = SelectedAfterDelete(id)
            /\ IF useLocalStorage
               THEN /\ lastOp' = Op("delete", id, now, "local", "success")
                    /\ UNCHANGED <<useLocalStorage, remoteFields>>
               ELSE IF o = "error"
               THEN /\ useLocalStorage' = TRUE
                    /\ lastOp' = Op("delete", id, now, "fallback", "success")
                    /\ UNCHANGED remoteFields
               ELSE /\ remoteFields' = FilterOut(remoteFields, id)
                    /\ lastOp' = Op("delete", id, now, "remote", "success")
                    /\ UNCHANGED useLocalStorage
            /\ UNCHANGED <<fields, issued, saveVars, yieldVars, recVars, rsVars,
                           histVars,
                   redrawVars, detailsVars, pureVars, createVars>>

\* a listed field is opened: it is put in 'selected_field'
navigateToFieldDetails ==
    \E k \in 1..Len(displayedFields) :
        /\ selected_field' = JSONStringify(displayedFields[k])
        /\ UNCHANGED <<local_fields, remoteFields, clock, fieldsVars, saveVars,
                       yieldVars, recVars, rsVars, histVars,
                   redrawVars, detailsVars, pureVars, createVars>>

\* the page right after its first render and its mount effect
InitFieldsIdle ==
    /\ localFields = << >>
    /\ useLocalStorage = FALSE
    /\ fields = QueryData(<< >>)
    /\ issued = 0
    /\ lastOp = NoOp
    /\ refetched = FALSE

(***************************************************************************)
(* createField mutations in flight together.  The mutationFn of a call     *)
(* reads localFields and useLocalStorage of the render it was begun in.    *)
(***************************************************************************)
MaxCreates == 2

Create(pc0, name, closure, during, id, path) ==
    [pc |-> pc0, name |-> name, localFields |-> closure, during |-> during,
     id |-> id, path |-> path]

\* the calls that have not ended
InFlight == {n \in 1..Len(creates) : creates[n].pc = "awaitInsert"}

\* saveToLocalStorage([...localFields, localField]) with the localFields of
\* the closure
SavedLocallyAfter(closure, localField) == Append(closure, localField)

\* createField.mutate(newField): in local mode the mutationFn runs to its end,
\* otherwise up to the await of the insert
createFieldBegun ==
    \E name \in FieldNames :
        LET id == issued + 1
            now == clock + 1
            localField == LocalField(DrawnField(name), id, now)
            updatedFields == SavedLocallyAfter(localFields, localField)
        IN  /\ Len(creates) < MaxCreates
            /\ IF useLocalStorage
               THEN /\ creates' = Append(creates,
                          Create("done", name, localFields, InFlight, id, "local"))
                    /\ clock' = now
                    /\ issued' = id
                    /\ local_fields' = JSONStringify(updatedFields)
                    /\ localFields' = updatedFields
                    /\ lastOp' = Op("create", id, now, "local", "success")
               ELSE /\ creates' = Append(creates,
                          Create("awaitInsert", name, localFields, InFlight, Undefined, "none"))
                    /\ UNCHANGED <<clock, issued, local_fields, localFields, lastOp>>
            /\ refetched' = FALSE
            /\ UNCHANGED <<useLocalStorage, fields, selected_field, remoteFields, saveVars,
                           yieldVars, recVars, rsVars, histVars, redrawVars, detailsVars,
                           pureVars>>

\* the insert of one of the calls settles and its mutationFn runs to its end
createFieldSettled ==
    \E n \in InFlight, o \in RequestOutcomes, dbStamp \in BOOLEAN :
        LET id == issued + 1
            now == clock + 1
            localField == LocalField(DrawnField(creates[n].name), id, now)
            updatedFields == SavedLocallyAfter(creates[n].localFields, localField)
        IN  /\ clock' = now
            /\ issued' = id
            /\ refetched' = FALSE
            /\ IF o = "error"
               THEN /\ useLocalStorage' = TRUE
                    /\ local_fields' = JSONStringify(updatedFields)
                    /\ localFields' = updatedFields
                    /\ lastOp' = Op("create", id, now, "fallback", "success")
                    /\ creates' = [creates EXCEPT ![n].pc = "done", ![n].id = id,
                                                   ![n].path = "fallback"]
                    /\ UNCHANGED remoteFields
               ELSE /\ remoteFields' = Append(remoteFields,
                           StoredField(id, creates[n].name, now,
                                       IF dbStamp THEN now ELSE Undefined))
                    /\ lastOp' = Op("create", id, now, "remote", "success")
                    /\ creates' = [creates EXCEPT ![n].pc = "done", ![n].id = id,
                                                   ![n].path = "remote"]
                    /\ UNCHANGED <<useLocalStorage, local_fields, localFields>>
            /\ UNCHANGED <<fields, selected_field, saveVars, yieldVars, recVars, rsVars,
                           histVars, redrawVars, detailsVars, pureVars>>

InitCreateIdle == creates = << >>

(***************************************************************************)
(* One field redrawn again and again: handleDrawUpdate calls in flight     *)
(* together.  When the map was given onFieldUpdated, the parent merges the *)
(* updates it is passed into the Field record.                             *)
(***************************************************************************)
MaxRedraws == 2

\* the polygons the field is redrawn to
RedrawRings ==
    {<<<<0, 0>>, <<0, 1>>, <<1, 0>>, <<0, 0>>>>,
     <<<<0, 0>>, <<0, 2>>, <<2, 0>>, <<0, 0>>>>}

RedrawOutcomes ==
    {o \in RemoteOutcomes :
        \/ o.kind = "transport"
        \/ /\ o.kind = "response"
           /\ o.status \in {200, 500}
           /\ o.body.kind = "object"
           /\ o.body.ndvi \in {Undefined, 450, 900}
           /\ o.body.soil_moisture = 300}

\* { ...field, ...updates } with updates a Partial<Field>
ApplyUpdates(record, updates) ==
    [record EXCEPT
        !.area = updates.area,
        !.polygon = updates.polygon,
        !.lastUpdated = updates.lastUpdated,
        !.ndvi = IF updates.ndvi # Undefined THEN updates.ndvi ELSE @,
        !.soilMoisture = IF updates.soilMoisture # Undefined
                         THEN updates.soilMoisture ELSE @]

Redraw(pc0, ring, v) == [pc |-> pc0, ring |-> ring, result |-> v]

\* draw.update: handleDrawUpdate runs up to its await
handleDrawUpdateBegun ==
    \E c \in RedrawRings :
        /\ Len(redraws) < MaxRedraws
        /\ redraws' = Append(redraws, Redraw("awaitFetch", c, Null))
        /\ UNCHANGED <<fieldRecord, yieldVars, recVars, rsVars, histVars,
                       storeVars, saveVars, fieldsVars, detailsVars, pureVars, createVars>>

\* the request of one of the calls in flight settles and that call of
\* handleDrawUpdate runs to its end
handleDrawUpdateResumed ==
    \E n \in 1..Len(redraws), o \in RedrawOutcomes : \E r \in FallbackDraws(o) :
        LET v == SettledResult(o, r, r)
            now == clock + 1
            updates == FieldUpdatesAfter("update", wired, redraws[n].ring, v, now)
        IN  /\ redraws[n].pc = "awaitFetch"
            /\ redraws' = [redraws EXCEPT ![n] = Redraw("done", redraws[n].ring, v)]
            /\ clock' = now
            /\ fieldRecord' = IF updates # Null
                               THEN ApplyUpdates(fieldRecord, updates)
                               ELSE fieldRecord
            /\ UNCHANGED <<local_fields, selected_field, remoteFields, histVars,
                           saveVars, fieldsVars, yieldVars, recVars, rsVars, detailsVars, pureVars, createVars>>

InitRedrawIdle ==
    /\ redraws = << >>
    /\ fieldRecord = Null

(***************************************************************************)
(* The FieldDetails page: the effect that loads the field of the route,    *)
(* back-fills its histories and saves it.                                  *)
(***************************************************************************)
DetailsField(id, ndvi, ndviHistory, soilMoistureHistory, weatherData, lastWeatherFetch) ==
    [kind |-> "field", id |-> id, ndvi |-> ndvi, soilMoisture |-> Undefined,
     ndviHistory |-> ndviHistory, soilMoistureHistory |-> soilMoistureHistory,
     lastUpdated |-> Undefined,
     weatherData |-> weatherData, lastWeatherFetch |-> lastWeatherFetch]

\* a history an earlier visit left on the record
OldHistory == HistoryList(<<HistoryPoint(format(Date(2024, 11, 31)), 420)>>)

\* a key a record does not have reads as Null
StoredHistories == {Null, HistoryList(<< >>), OldHistory}

LoadNdviValues == {Undefined, 800}

\* records the Fields page or an earlier visit left in 'selected_field'
StoredDetails ==
    {DetailsField(i, n, h1, h2, Null, Undefined) :
        i \in FieldIds, n \in LoadNdviValues, h1 \in StoredHistories, h2 \in StoredHistories}

\* new Date() and the Math.random() stream at a call of generateHistoricalData
LoadTodays == {Date(2025, 0, 10), Date(2025, 6, 31)}
LoadStreams == {s \in RandomStreams : \A k \in 1..Len(s) : s[k] = s[1]}

\* !history || history.length === 0
IsAbsent(history) == history = Null \/ history.items = << >>

\* generateHistoricalData is entered with these arguments
GeneratorEntered(args) ==
    /\ histIn' = args
    /\ histOut' = Null
    /\ histI' = HistoryDays
    /\ histResult' = << >>
    /\ histCalls' = 0

\* the effect runs loadFieldData: 'selected_field' is read and parsed
loadFieldData ==
    /\ loadPc = "idle"
    /\ IF selected_field # Null /\ JSONParse(selected_field).id = routeId
       THEN /\ parsedField' = JSONParse(selected_field)
            /\ storedField' = JSONParse(selected_field)
            /\ loadPc' = "ndviHistory"
       ELSE /\ loadPc' = "done"
            /\ UNCHANGED <<parsedField, storedField>>
    /\ UNCHANGED <<detailsField, routeId, generated, weatherVars, yieldVars, recVars,
                   rsVars, histVars, storeVars, saveVars, fieldsVars, redrawVars, pureVars, createVars>>

IfNdviHistoryAbsentAlways == TRUE

\* if (!parsedField.ndviHistory || parsedField.ndviHistory.length === 0)
IfNdviHistoryAbsent == IsAbsent(parsedField.ndviHistory)

LoadNdviHistoryChecked ==
    /\ loadPc = "ndviHistory"
    /\ IF IfNdviHistoryAbsent
       THEN \E today \in LoadTodays, stream \in LoadStreams :
               /\ GeneratorEntered(HistoryArgs(
                      [ndvi |-> parsedField.ndvi, soilMoisture |-> parsedField.soilMoisture],
                      "ndvi", today, stream))
               /\ generated' = generated \cup {"ndvi"}
               /\ loadPc' = "ndviGenerator"
       ELSE /\ loadPc' = "soilMoistureHistory"
            /\ UNCHANGED <<histVars, generated>>
    /\ UNCHANGED <<detailsField, routeId, parsedField, storedField, weatherVars, yieldVars,
                   recVars, rsVars, storeVars, saveVars, fieldsVars, redrawVars, pureVars, createVars>>

\* parsedField.ndviHistory = generateHistoricalData(parsedField, 'ndvi')
LoadNdviHistoryGenerated ==
    /\ loadPc = "ndviGenerator"
    /\ histOut # Null
    /\ parsedField' = [parsedField EXCEPT !.ndviHistory = histOut]
    /\ loadPc' = "soilMoistureHistory"
    /\ UNCHANGED <<detailsField, routeId, storedField, generated, weatherVars, yieldVars,
                   recVars, rsVars, histVars, storeVars, saveVars, fieldsVars, redrawVars, pureVars, createVars>>

LoadSoilMoistureHistoryChecked ==
    /\ loadPc = "soilMoistureHistory"
    /\ IF IsAbsent(parsedField.soilMoistureHistory)
       THEN \E today \in LoadTodays, stream \in LoadStreams :
               /\ GeneratorEntered(HistoryArgs(
                      [ndvi |-> parsedField.ndvi, soilMoisture |-> parsedField.soilMoisture],
                      "soilMoisture", today, stream))
               /\ generated' = generated \cup {"soilMoisture"}
               /\ loadPc' = "soilMoistureGenerator"
       ELSE /\ loadPc' = "setField"
            /\ UNCHANGED <<histVars, generated>>
    /\ UNCHANGED <<detailsField, routeId, parsedField, storedField, weatherVars, yieldVars,
                   recVars, rsVars, storeVars, saveVars, fieldsVars, redrawVars, pureVars, createVars>>

LoadSoilMoistureHistoryGenerated ==
    /\ loadPc = "soilMoistureGenerator"
    /\ histOut # Null
    /\ parsedField' = [parsedField EXCEPT !.soilMoistureHistory = histOut]
    /\ loadPc' = "setField"
    /\ UNCHANGED <<detailsField, routeId, storedField, generated, weatherVars, yieldVars,
                   recVars, rsVars, histVars, storeVars, saveVars, fieldsVars, redrawVars, pureVars, createVars>>

\* saveFieldData(f) up to its first await: f is stamped and written to both
\* localStorage items
SavedLocally(f, now) ==
    LET updatedField == [f EXCEPT !.lastUpdated = now]
        allFields == local_fields
        list == IF allFields # Null THEN JSONParse(allFields) ELSE << >>
    IN  /\ local_fields' = JSONStringify(UpsertById(list, updatedField))
        /\ selected_field' = JSONStringify(updatedField)

\* setField(parsedField) and saveFieldData(parsedField) up to its first await
LoadFieldSet ==
    /\ loadPc = "setField"
    /\ detailsField' = parsedField
    /\ clock' = clock + 1
    /\ SavedLocally(parsedField, clock + 1)
    /\ saveField' = [parsedField EXCEPT !.lastUpdated = clock + 1]
    /\ saveOutcome' = "pending"
    /\ saveReturn' = Null
    /\ saveThrew' = FALSE
    /\ savePc' = "awaitConnection"
    /\ loadPc' = "awaitSave"
    /\ UNCHANGED <<remoteFields, routeId, parsedField, storedField, generated, weatherVars,
                   yieldVars, recVars, rsVars, histVars, fieldsVars, redrawVars, pureVars, createVars>>

\* saveFieldData has returned: finally { setLoading(false) }
LoadFinished ==
    /\ loadPc = "awaitSave"
    /\ savePc = "returned"
    /\ loadPc' = "done"
    /\ UNCHANGED <<detailsField, routeId, parsedField, storedField, generated, weatherVars,
                   yieldVars, recVars, rsVars, histVars, storeVars, saveVars, fieldsVars,
                   redrawVars, pureVars, createVars>>

InitLoadIdle ==
    /\ detailsField = Null
    /\ loadPc = "idle"
    /\ parsedField = Null
    /\ storedField = Null
    /\ routeId = 1
    /\ generated = {}

(***************************************************************************)
(* The FieldDetails page once the field is loaded: the tabs, the refresh   *)
(* button, the auto-fetch effect and the calls of refreshWeatherData.      *)
(* React runs a pending effect before it handles the next user event.      *)
(***************************************************************************)
MaxWeatherCalls == 2
MaxUserActions == 2

TabValues == {"ndvi", "weather", "soil"}

\* bodies of a 2xx answer of the weather API
WeatherReports == {[kind |-> "weather", temp |-> 21], [kind |-> "weather", temp |-> 30]}

\* fetchWeatherData resolves, throws after a non-2xx answer, or the request
\* itself rejects
WeatherOutcomes == {"ok", "notOk", "rejects"}

WeatherCall(pc0, closure, cause, saved) ==
    [pc |-> pc0, field |-> closure, cause |-> cause, saved |-> saved]

\* refreshWeatherData up to its await, with the field of the render it closes over
RefreshStarted(cause) ==
    /\ Len(weatherCalls) < MaxWeatherCalls
    /\ weatherCalls' = Append(weatherCalls, WeatherCall("awaitFetch", detailsField, cause, Null))

\* a tab trigger is clicked: onValueChange={setActiveTab}
setActiveTab ==
    \E value \in TabValues \ {activeTab} :
        /\ loadPc = "done"
        /\ detailsField # Null
        /\ ~effectPending
        /\ userActions < MaxUserActions
        /\ userActions' = userActions + 1
        /\ activeTab' = value
        /\ effectPending' = TRUE
        /\ requestsSinceAction' = 0
        /\ UNCHANGED <<weatherCalls, loadVars, yieldVars, recVars, rsVars, histVars,
                       storeVars, saveVars, fieldsVars, redrawVars, pureVars, createVars>>

\* the Refresh Weather Data button of the weather tab is clicked
refreshWeatherData ==
    /\ loadPc = "done"
    /\ detailsField # Null
    /\ activeTab = "weather"
    /\ ~effectPending
    /\ userActions < MaxUserActions
    /\ userActions' = userActions + 1
    /\ RefreshStarted("click")
    /\ requestsSinceAction' = 1
    /\ UNCHANGED <<activeTab, effectPending, loadVars, yieldVars, recVars, rsVars,
                   histVars, storeVars, saveVars, fieldsVars, redrawVars, pureVars, createVars>>

AutoFetchConditionWithoutSnapshotTest ==
    detailsField # Null /\ activeTab = "weather"

\* if (field && field.polygon && !field.weatherData && activeTab === 'weather')
AutoFetchCondition ==
    detailsField # Null /\ detailsField.weatherData = Null /\ activeTab = "weather"

\* the effect on [field, activeTab] runs autoFetchWeather
autoFetchWeather ==
    /\ effectPending
    /\ effectPending' = FALSE
    /\ IF AutoFetchCondition
       THEN /\ RefreshStarted("auto")
            /\ requestsSinceAction' = requestsSinceAction + 1
       ELSE UNCHANGED <<weatherCalls, requestsSinceAction>>
    /\ UNCHANGED <<activeTab, userActions, loadVars, yieldVars, recVars, rsVars,
                   histVars, storeVars, saveVars, fieldsVars, redrawVars, pureVars, createVars>>

\* the catch of refreshWeatherData: a toast, nothing else
WeatherFailedStampsField(n) ==
    /\ weatherCalls' = [weatherCalls EXCEPT ![n].pc = "done"]
    /\ detailsField' = [detailsField EXCEPT !.lastWeatherFetch = clock]
    /\ effectPending' = TRUE
    /\ UNCHANGED <<storeVars, loadPc, parsedField, storedField, routeId, generated>>

WeatherFailed(n) ==
    /\ weatherCalls' = [weatherCalls EXCEPT ![n].pc = "done"]
    /\ UNCHANGED <<effectPending, storeVars, loadVars>>

\* fetchWeatherData settles for call n of refreshWeatherData; on success the
\* field is set and saveFieldData runs up to its first await
FetchWeatherDataSettled ==
    \E n \in 1..Len(weatherCalls), o \in WeatherOutcomes, weatherData \in WeatherReports :
        /\ weatherCalls[n].pc = "awaitFetch"
        /\ IF o = "ok"
           THEN LET now == clock + 1
                    updatedField == [weatherCalls[n].field EXCEPT
                                        !.weatherData = weatherData,
                                        !.lastWeatherFetch = now]
                IN  /\ detailsField' = updatedField
                    /\ effectPending' = TRUE
                    /\ clock' = now
                    /\ SavedLocally(updatedField, now)
                    /\ weatherCalls' = [weatherCalls EXCEPT ![n] =
                           WeatherCall("awaitConnection", weatherCalls[n].field,
                                       weatherCalls[n].cause,
                                       [updatedField EXCEPT !.lastUpdated = now])]
                    /\ UNCHANGED <<remoteFields, loadPc, parsedField, storedField,
                                   routeId, generated>>
           ELSE WeatherFailed(n)
        /\ UNCHANGED <<activeTab, userActions, requestsSinceAction, yieldVars, recVars,
                       rsVars, histVars, saveVars, fieldsVars, redrawVars, pureVars, createVars>>

\* checkSupabaseConnection settles inside the saveFieldData of call n
WeatherSaveConnectionSettled ==
    \E n \in 1..Len(weatherCalls), o \in StoreOutcomes :
        /\ weatherCalls[n].pc = "awaitConnection"
        /\ weatherCalls' = [weatherCalls EXCEPT ![n].pc =
                               IF o = "ok" THEN "awaitUpsert" ELSE "done"]
        /\ UNCHANGED <<activeTab, effectPending, userActions, requestsSinceAction,
                       loadVars, yieldVars, recVars, rsVars, histVars, storeVars,
                       saveVars, fieldsVars, redrawVars, pureVars, createVars>>

\* the upsert settles inside the saveFieldData of call n
WeatherSaveUpsertSettled ==
    \E n \in 1..Len(weatherCalls), o \in StoreOutcomes :
        /\ weatherCalls[n].pc = "awaitUpsert"
        /\ weatherCalls' = [weatherCalls EXCEPT ![n].pc = "done"]
        /\ remoteFields' = IF o = "ok" THEN UpsertById(remoteFields, weatherCalls[n].saved)
                           ELSE remoteFields
        /\ UNCHANGED <<local_fields, selected_field, clock, activeTab, effectPending,
                       userActions, requestsSinceAction, loadVars, yieldVars, recVars,
                       rsVars, histVars, saveVars, fieldsVars, redrawVars, pureVars, createVars>>

InitWeatherIdle ==
    /\ activeTab = "ndvi"
    /\ effectPending = FALSE
    /\ weatherCalls = << >>
    /\ userActions = 0
    /\ requestsSinceAction = 0

(***************************************************************************)
(* calculateRealNDVI.  Reflectances are held in 1/3000, the spread of the  *)
(* NDVI (1.5 standard deviations) in 1/4000, the returned values in        *)
(* hundredths.                                                             *)
(***************************************************************************)
\* latitudes of a polygon's centre, in degrees
Latitudes == {0 - 70, 0 - 20, 0, 14, 15, 29, 30, 44, 45, 59, 60}

\* now.getMonth()
Months == {2, 3, 8, 9}

\* turf.area(polygon) / 10000, in hectares
AreasHectares == {0, 5, 10, 40, 400}

\* draws of Math.random(), in thousandths
NdviDraws == {0, 240, 480, 720, 920}

\* in tenths
calculateLatitudeFactor(absoluteLatitude) ==
    IF absoluteLatitude < 15 THEN 8
    ELSE IF absoluteLatitude < 30 THEN 7
    ELSE IF absoluteLatitude < 45 THEN 6
    ELSE IF absoluteLatitude < 60 THEN 4
    ELSE 2

\* in tenths
calculateSeasonalFactor(latitude, month) ==
    IF latitude >= 0
    THEN (IF month >= 3 /\ month <= 8 THEN 10 ELSE 6)
    ELSE (IF month >= 3 /\ month <= 8 THEN 6 ELSE 10)

\* Math.min(1, areaHectares / 10), in tenths
AreaShare(areaHectares) == Min(10, areaHectares)

calculateNIRReflectance(latitudeFactor, seasonalFactor, areaHectares, r) ==
    LET seasonalNIR == ((400 + 30 * latitudeFactor) * seasonalFactor * 3) \div 10
        randomFactor == (3 * r * AreaShare(areaHectares)) \div 100
    IN  Min(2550, Max(900, seasonalNIR + randomFactor))

calculateRedReflectance(latitudeFactor, seasonalFactor, areaHectares, r) ==
    LET seasonalRed == (30 * (150 - 10 * latitudeFactor)) \div seasonalFactor
        randomFactor == (3 * r * AreaShare(areaHectares)) \div 200
    IN  Min(900, Max(150, seasonalRed + randomFactor))

\* ndviStdDev * 1.5
NdviSpread(areaHectares) == Min(900, 180 + 3 * areaHectares)

NdviMinUnclamped(nir, red, spread) == 4000 * (nir - red) - spread * (nir + red)

\* Math.max(0, ndviMean - ndviStdDev * 1.5), over 4000 * (nir + red)
NdviMin(nir, red, spread) == Max(0, 4000 * (nir - red) - spread * (nir + red))

\* Math.min(1, ndviMean + ndviStdDev * 1.5), over 4000 * (nir + red)
NdviMax(nir, red, spread) ==
    Min(4000 * (nir + red), 4000 * (nir - red) + spread * (nir + red))

NdviArgs(latitude, month, areaHectares, r1, r2) ==
    [kind |-> "args", latitude |-> latitude, month |-> month,
     areaHectares |-> areaHectares, r1 |-> r1, r2 |-> r2]

calculateRealNDVI(latitude, month, areaHectares, r1, r2) ==
    LET latitudeFactor == calculateLatitudeFactor(Abs(latitude))
        seasonalFactor == calculateSeasonalFactor(latitude, month)
        nir == calculateNIRReflectance(latitudeFactor, seasonalFactor, areaHectares, r1)
        red == calculateRedReflectance(latitudeFactor, seasonalFactor, areaHectares, r2)
        spread == NdviSpread(areaHectares)
    IN  [kind |-> "ndvi",
         min |-> ToFixed(NdviMin(nir, red, spread), 40 * (nir + red)),
         max |-> ToFixed(NdviMax(nir, red, spread), 40 * (nir + red)),
         mean |-> ToFixed(100 * (nir - red), nir + red)]

ApplyCalculateRealNDVI ==
    /\ ndviIn.kind = "args"
    /\ ndviOut = Null
    /\ ndviOut' = calculateRealNDVI(ndviIn.latitude, ndviIn.month, ndviIn.areaHectares,
                                    ndviIn.r1, ndviIn.r2)
    /\ UNCHANGED <<ndviIn, moistureIn, moistureColours, yieldVars, recVars, rsVars,
                   histVars, storeVars, saveVars, fieldsVars, redrawVars, detailsVars, createVars>>

(***************************************************************************)
(* The colour of a field by its soil moisture, on the map of the Fields    *)
(* page and on the map of the FieldDetails page.  Moisture in tenths of a  *)
(* percent.                                                                *)
(***************************************************************************)
\* field.soilMoisture of the coloured field
MoistureLevels == {Undefined} \cup {5 * k : k \in 0..200}

\* field.soilMoisture || 0
OrZero(x) == IF x = Undefined \/ x = NaN \/ x = 0 THEN 0 ELSE x

\* Map.tsx
getSoilMoistureColor(moisture) ==
    IF moisture < 150 THEN "#E74C3C"
    ELSE IF moisture < 300 THEN "#FF9933"
    ELSE IF moisture < 500 THEN "#2ECC71"
    ELSE IF moisture < 700 THEN "#3498DB"
    ELSE "#1B4F72"

\* lib/utils.ts
getSoilMoistureCategory(moisture) ==
    IF moisture < 100 THEN [label |-> "Very Dry", color |-> "#E74C3C"]
    ELSE IF moisture < 200 THEN [label |-> "Dry", color |-> "#FF9933"]
    ELSE IF moisture < 300 THEN [label |-> "Adequate", color |-> "#2ECC71"]
    ELSE IF moisture < 400 THEN [label |-> "Moist", color |-> "#3498DB"]
    ELSE [label |-> "Wet", color |-> "#1B4F72"]

\* the field is drawn on both maps in soil-moisture mode
FieldColoured ==
    /\ moistureColours = Null
    /\ moistureColours' =
           [kind |-> "colours",
            map |-> getSoilMoistureColor(OrZero(moistureIn)),
            details |-> getSoilMoistureCategory(OrZero(moistureIn)).color]
    /\ UNCHANGED <<ndviIn, ndviOut, moistureIn, yieldVars, recVars, rsVars,
                   histVars, storeVars, saveVars, fieldsVars, redrawVars, detailsVars, createVars>>

InitPureIdle ==
    /\ ndviIn = Null
    /\ ndviOut = Null
    /\ moistureIn = Undefined
    /\ moistureColours = Null

\* state of the pages before any of their operations has run
InitPagesIdle ==
    /\ InitHistoryIdle
    /\ InitStoreEmpty
    /\ InitSaveIdle
    /\ InitFieldsIdle
    /\ InitRedrawIdle
    /\ InitLoadIdle
    /\ InitWeatherIdle
    /\ InitPureIdle
    /\ InitCreateIdle

InitRemoteIdle ==
    /\ coordinates = << >>
    /\ rsPc = "idle"
    /\ caller = "direct"
    /\ defaults = NoDefaults
    /\ requestCoords = Null
    /\ netRequests = 0
    /\ response = Null
    /\ rsResult = Null
    /\ rsRejected = FALSE
    /\ newField = Null
    /\ passedCoords = << >>
    /\ estimatorCalls = 0
    /\ events = 0
    /\ drawEvent = "none"
    /\ wired = FALSE
    /\ fieldUpdates = Null
    /\ toast = NoToast

InitYield ==
    /\ field = [ndvi |-> Undefined, soilMoisture |-> Undefined]
    /\ pc = "idle"
    /\ attempted = << >>
    /\ failed = {}
    /\ result = Null
    /\ rejected = FALSE
    /\ yieldHistory = Null
    /\ currentYear \in Years
    /\ recIn = Null
    /\ recOut = Null
    /\ InitRemoteIdle
    /\ InitPagesIdle

NextYield ==
    \/ fetchYieldPrediction
    \/ EarthEngineResolved
    \/ EarthEngineRejected
    \/ NASAHarvestResolved
    \/ NASAHarvestRejected
    \/ AgroMonitoringResolved
    \/ AgroMonitoringRejected
    \/ OneFarmResolved
    \/ OneFarmRejected

SpecYield == InitYield /\ [][NextYield]_vars

(***************************************************************************)
(* generateRecommendations applied to drawn arguments                      *)
(***************************************************************************)
RecNdviInputs == {0 - 200, 0, 300, 399, 400, 599, 600, 750, 1000}
RecMoistureInputs == {0, 249, 250, 450, 600, 601, 700, 1000}
RecGapInputs == {0 - 50, 0, 50, 199, 200, 201, 300}

InitRec ==
    /\ recIn \in {RecArgs(n, m, g) : n \in RecNdviInputs, m \in RecMoistureInputs,
                                     g \in RecGapInputs}
    /\ recOut = Null
    /\ field = [ndvi |-> Undefined, soilMoisture |-> Undefined]
    /\ pc = "idle"
    /\ attempted = << >>
    /\ failed = {}
    /\ result = Null
    /\ rejected = FALSE
    /\ yieldHistory = Null
    /\ currentYear \in Years
    /\ InitRemoteIdle
    /\ InitPagesIdle

ApplyGenerateRecommendations ==
    /\ recIn.kind = "args"
    /\ recOut = Null
    /\ recOut' = RecList(generateRecommendations(recIn.ndvi, recIn.soilMoisture, recIn.yieldGap))
    /\ UNCHANGED <<recIn, yieldVars, rsVars, pageVars>>

NextRec == ApplyGenerateRecommendations

SpecRec == InitRec /\ [][NextRec]_vars

(***************************************************************************)
(* The NDVI / soil-moisture estimator on its own and under draw.create     *)
(***************************************************************************)
InitRemote == InitYield

NextRemote ==
    \/ fetchRemoteSensingData
    \/ handleDrawCreate
    \/ handleDrawUpdate
    \/ handleDrawDelete
    \/ FetchSettled

SpecRemote == InitRemote /\ [][NextRemote]_vars

(***************************************************************************)
(* generateHistoricalData applied to drawn arguments                       *)
(***************************************************************************)
InitHistory ==
    /\ histIn \in HistoryInputs
    /\ HistoryEntered
    /\ field = [ndvi |-> Undefined, soilMoisture |-> Undefined]
    /\ pc = "idle"
    /\ attempted = << >>
    /\ failed = {}
    /\ result = Null
    /\ rejected = FALSE
    /\ yieldHistory = Null
    /\ currentYear \in Years
    /\ recIn = Null
    /\ recOut = Null
    /\ InitRemoteIdle
    /\ InitStoreEmpty
    /\ InitSaveIdle
    /\ InitFieldsIdle
    /\ InitRedrawIdle
    /\ InitLoadIdle
    /\ InitWeatherIdle
    /\ InitPureIdle
    /\ InitCreateIdle

NextHistory ==
    \/ HistoryLoopBody
    \/ HistoryReturn

SpecHistory == InitHistory /\ [][NextHistory]_vars

(***************************************************************************)
(* saveFieldData called again and again                                    *)
(***************************************************************************)
InitialLocalFields ==
    {Null,
     JSONStringify(<<StoredField(1, "North", 0, Undefined),
                     StoredField(2, "South", 0, Undefined)>>)}

InitSave ==
    /\ local_fields \in InitialLocalFields
    /\ selected_field = Null
    /\ remoteFields = << >>
    /\ clock = 0
    /\ InitSaveIdle
    /\ InitFieldsIdle
    /\ InitRedrawIdle
    /\ InitLoadIdle
    /\ InitWeatherIdle
    /\ InitPureIdle
    /\ InitCreateIdle
    /\ InitHistoryIdle
    /\ field = [ndvi |-> Undefined, soilMoisture |-> Undefined]
    /\ pc = "idle"
    /\ attempted = << >>
    /\ failed = {}
    /\ result = Null
    /\ rejected = FALSE
    /\ yieldHistory = Null
    /\ currentYear \in Years
    /\ recIn = Null
    /\ recOut = Null
    /\ InitRemoteIdle

NextSave ==
    \/ SaveFieldDataCalled
    \/ CheckSupabaseConnectionSettled
    \/ UpsertSettled

SpecSave == InitSave /\ [][NextSave]_vars

(***************************************************************************)
(* The Fields page over a remote store that fails at arbitrary points      *)
(***************************************************************************)
InitFields == InitYield

NextFields ==
    \/ queryFn
    \/ FieldsMounted
    \/ createField
    \/ updateField
    \/ deleteField
    \/ navigateToFieldDetails

SpecFields == InitFields /\ [][NextFields]_vars

(***************************************************************************)
(* A field of the map redrawn in quick succession                          *)
(***************************************************************************)
InitRedraw ==
    /\ redraws = << >>
    /\ fieldRecord = [kind |-> "field", area |-> 0, polygon |-> << >>,
                      ndvi |-> DefaultNdvi, soilMoisture |-> DefaultSoilMoisture,
                      lastUpdated |-> Undefined]
    /\ InitHistoryIdle
    /\ InitStoreEmpty
    /\ InitSaveIdle
    /\ InitFieldsIdle
    /\ InitLoadIdle
    /\ InitWeatherIdle
    /\ InitPureIdle
    /\ InitCreateIdle
    /\ field = [ndvi |-> Undefined, soilMoisture |-> Undefined]
    /\ pc = "idle"
    /\ attempted = << >>
    /\ failed = {}
    /\ result = Null
    /\ rejected = FALSE
    /\ yieldHistory = Null
    /\ currentYear \in Years
    /\ recIn = Null
    /\ recOut = Null
    /\ coordinates = << >>
    /\ rsPc = "idle"
    /\ caller = "direct"
    /\ defaults = NoDefaults
    /\ requestCoords = Null
    /\ netRequests = 0
    /\ response = Null
    /\ rsResult = Null
    /\ rsRejected = FALSE
    /\ newField = Null
    /\ passedCoords = << >>
    /\ estimatorCalls = 0
    /\ events = 0
    /\ drawEvent = "none"
    /\ wired \in BOOLEAN
    /\ fieldUpdates = Null
    /\ toast = NoToast

NextRedraw ==
    \/ handleDrawUpdateBegun
    \/ handleDrawUpdateResumed

SpecRedraw == InitRedraw /\ [][NextRedraw]_vars

(***************************************************************************)
(* FieldDetails mounted on a route, with what the browser has stored       *)
(***************************************************************************)
\* the pipeline at rest
InitPipelineIdle ==
    /\ field = [ndvi |-> Undefined, soilMoisture |-> Undefined]
    /\ pc = "idle"
    /\ attempted = << >>
    /\ failed = {}
    /\ result = Null
    /\ rejected = FALSE
    /\ yieldHistory = Null
    /\ currentYear \in Years
    /\ recIn = Null
    /\ recOut = Null
    /\ InitRemoteIdle

InitLoad ==
    /\ selected_field \in {Null} \cup {JSONStringify(f) : f \in StoredDetails}
    /\ local_fields \in {Null} \cup {JSONStringify(<<f>>) : f \in StoredDetails}
    /\ (selected_field # Null /\ local_fields # Null) =>
           JSONParse(local_fields)[1] = JSONParse(selected_field)
    /\ remoteFields = << >>
    /\ clock = 0
    /\ detailsField = Null
    /\ loadPc = "idle"
    /\ parsedField = Null
    /\ storedField = Null
    /\ routeId \in FieldIds
    /\ generated = {}
    /\ InitWeatherIdle
    /\ InitPureIdle
    /\ InitCreateIdle
    /\ InitSaveIdle
    /\ InitFieldsIdle
    /\ InitRedrawIdle
    /\ InitHistoryIdle
    /\ InitPipelineIdle

NextLoad ==
    \/ loadFieldData
    \/ LoadNdviHistoryChecked
    \/ LoadNdviHistoryGenerated
    \/ LoadSoilMoistureHistoryChecked
    \/ LoadSoilMoistureHistoryGenerated
    \/ HistoryLoopBody
    \/ HistoryReturn
    \/ LoadFieldSet
    \/ CheckSupabaseConnectionSettled
    \/ UpsertSettled
    \/ LoadFinished

SpecLoad == InitLoad /\ [][NextLoad]_vars

(***************************************************************************)
(* FieldDetails with its field loaded and saved, the NDVI tab open         *)
(***************************************************************************)
\* the field as loadFieldData left it: without a weather snapshot, or with
\* the snapshot of an earlier visit
LoadedDetails ==
    {DetailsField(1, 800, OldHistory, OldHistory, Null, Undefined),
     DetailsField(1, 800, OldHistory, OldHistory, [kind |-> "weather", temp |-> 21], 0)}

InitWeather ==
    /\ detailsField \in LoadedDetails
    /\ loadPc = "done"
    /\ parsedField = detailsField
    /\ storedField = detailsField
    /\ routeId = 1
    /\ generated = {}
    /\ clock = 1
    /\ selected_field = JSONStringify([detailsField EXCEPT !.lastUpdated = 1])
    /\ local_fields = JSONStringify(<<[detailsField EXCEPT !.lastUpdated = 1]>>)
    /\ remoteFields = << >>
    /\ savePc = "returned"
    /\ saveField = [detailsField EXCEPT !.lastUpdated = 1]
    /\ saveOutcome = "unreachable"
    /\ saveReturn = [kind |-> "boolean", value |-> TRUE]
    /\ saveThrew = FALSE
    /\ InitWeatherIdle
    /\ InitPureIdle
    /\ InitCreateIdle
    /\ InitFieldsIdle
    /\ InitRedrawIdle
    /\ InitHistoryIdle
    /\ InitPipelineIdle

NextWeather ==
    \/ setActiveTab
    \/ refreshWeatherData
    \/ autoFetchWeather
    \/ FetchWeatherDataSettled
    \/ WeatherSaveConnectionSettled
    \/ WeatherSaveUpsertSettled

SpecWeather == InitWeather /\ [][NextWeather]_vars

(***************************************************************************)
(* calculateRealNDVI applied to drawn arguments                            *)
(***************************************************************************)
InitNdvi ==
    /\ ndviIn \in {NdviArgs(l, m, a, r1, r2) :
                       l \in Latitudes, m \in Months, a \in AreasHectares,
                       r1 \in NdviDraws, r2 \in NdviDraws}
    /\ ndviOut = Null
    /\ moistureIn = Undefined
    /\ moistureColours = Null
    /\ InitCreateIdle
    /\ InitLoadIdle
    /\ InitWeatherIdle
    /\ InitStoreEmpty
    /\ InitSaveIdle
    /\ InitFieldsIdle
    /\ InitRedrawIdle
    /\ InitHistoryIdle
    /\ InitPipelineIdle

NextNdvi == ApplyCalculateRealNDVI

SpecNdvi == InitNdvi /\ [][NextNdvi]_vars

(***************************************************************************)
(* A field coloured by its soil moisture                                   *)
(***************************************************************************)
InitColour ==
    /\ moistureIn \in MoistureLevels
    /\ moistureColours = Null
    /\ ndviIn = Null
    /\ ndviOut = Null
    /\ InitCreateIdle
    /\ InitLoadIdle
    /\ InitWeatherIdle
    /\ InitStoreEmpty
    /\ InitSaveIdle
    /\ InitFieldsIdle
    /\ InitRedrawIdle
    /\ InitHistoryIdle
    /\ InitPipelineIdle

NextColour == FieldColoured

SpecColour == InitColour /\ [][NextColour]_vars

(***************************************************************************)
(* Fields created in quick succession                                      *)
(***************************************************************************)
\* the page is mounted, with or without a field in 'local_fields', and the
\* ['fields'] query has or has not put it in local mode
InitCreate ==
    /\ creates = << >>
    /\ \E cached \in BOOLEAN, name \in FieldNames :
           /\ localFields = IF cached THEN <<StoredField(1, name, 0, Undefined)>> ELSE << >>
           /\ local_fields = IF cached THEN JSONStringify(localFields) ELSE Null
           /\ issued = IF cached THEN 1 ELSE 0
    /\ useLocalStorage \in BOOLEAN
    /\ fields = QueryData(<< >>)
    /\ lastOp = NoOp
    /\ refetched = FALSE
    /\ selected_field = Null
    /\ remoteFields = << >>
    /\ clock = 0
    /\ InitHistoryIdle
    /\ InitSaveIdle
    /\ InitRedrawIdle
    /\ InitLoadIdle
    /\ InitWeatherIdle
    /\ InitPureIdle
    /\ InitPipelineIdle

NextCreate ==
    \/ createFieldBegun
    \/ createFieldSettled

SpecCreate == InitCreate /\ [][NextCreate]_vars

(***************************************************************************)
(* Properties                                                              *)
(***************************************************************************)
SourceOrder == <<EarthEngine, NASAHarvest, AgroMonitoring, OneFarm, SyntheticModel>>

Occurrences(seq, x) == Cardinality({i \in 1..Len(seq) : seq[i] = x})

\* C1: within one fetchYieldPrediction call the sources are invoked one at a
\* time in the fixed order, each at most once, a source only after every
\* earlier one has failed; when tiers 1 and 2 have failed tier 3 is invoked
\* exactly once, and the synthetic model runs only after tiers 1-3 failed.
FallbackOrdering ==
    /\ Len(attempted) <= Len(SourceOrder)
    /\ \A i \in 1..Len(attempted) : attempted[i] = SourceOrder[i]
    /\ \A i \in 1..Len(attempted) : \A j \in 1..(i - 1) : attempted[j] \in failed
    /\ \A src \in failed : Occurrences(attempted, src) = 1
    /\ ({EarthEngine, NASAHarvest} \subseteq failed => Occurrences(attempted, AgroMonitoring) = 1)
    /\ (Occurrences(attempted, SyntheticModel) > 0
            => {EarthEngine, NASAHarvest, AgroMonitoring} \subseteq failed)
    /\ (pc = "done" => attempted # << >> /\ attempted[Len(attempted)] \notin failed)

\* tiers 1 and 2 failed and tier 3 answered
ThirdTierAnswered ==
    /\ pc = "done"
    /\ attempted = <<EarthEngine, NASAHarvest, AgroMonitoring>>
    /\ failed = {EarthEngine, NASAHarvest}
    /\ result.kind = "prediction"

\* C2: fetchYieldPrediction never rejects and resolves with a prediction for
\* every combination of source outcomes; when all remote sources failed the
\* prediction is the synthetic model's.
AlwaysAPrediction ==
    /\ ~rejected
    /\ (pc = "done" => result.kind = "prediction")
    /\ (pc = "done" /\ RemoteSources \subseteq failed
            => /\ result.dataSource = "synthetic-model"
               /\ result = fallbackToSyntheticPrediction(field))

AllRemoteSourcesFailed ==
    /\ pc = "done"
    /\ failed = RemoteSources
    /\ result.kind = "prediction"

\* C6: every returned prediction for a field with ndvi in [-1, 1] and
\* soilMoisture in [0, 100] has potentialYield >= currentYield and
\* yieldGap = potentialYield - currentYield.
YieldOrdering ==
    (/\ pc = "done"
     /\ result.kind = "prediction"
     /\ Ge(field.ndvi, 0 - 1000) /\ Le(field.ndvi, 1000)
     /\ Ge(field.soilMoisture, 0) /\ Le(field.soilMoisture, 1000))
        => /\ Ge(result.potentialYield, result.currentYield)
           /\ IsNum(result.yieldGap)
           /\ result.yieldGap = FloatSub(result.potentialYield, result.currentYield)

\* C7: generateRecommendations returns at least one string, and every
\* prediction fetchYieldPrediction returns carries a non-empty list.
RecommendationsNonEmpty ==
    /\ (recOut # Null => Len(recOut.items) >= 1)
    /\ (pc = "done" /\ result.kind = "prediction" => Len(result.recommendations) >= 1)

\* a returned prediction for which no rule fired
PredictionWithDefaultRecommendation ==
    /\ pc = "done"
    /\ result.kind = "prediction"
    /\ recOut # Null
    /\ result.recommendations = <<RecMaintain>>

NoRuleFires(args) ==
    /\ args.ndvi >= 600
    /\ args.soilMoisture >= 250 /\ args.soilMoisture <= 600
    /\ args.yieldGap <= 200

InList(seq, x) == \E i \in 1..Len(seq) : seq[i] = x

\* C8: the list is exactly the single 'maintain current practices' message
\* if and only if ndvi >= 0.6, 25 <= soilMoisture <= 60 and yieldGap <= 2 (as
\* for 0.75, 45, 0.5); otherwise that message is not in the list.
MaintainOnlyWhenNoRuleFires ==
    recOut # Null =>
        /\ (recOut.items = <<RecMaintain>> <=> NoRuleFires(recIn))
        /\ (~NoRuleFires(recIn) => ~InList(recOut.items, RecMaintain))
        /\ (recIn = RecArgs(750, 450, 50) => recOut.items = <<RecMaintain>>)

ScenarioCApplied ==
    /\ recIn = RecArgs(750, 450, 50)
    /\ recOut # Null

\* 1: NDVI (fertilizer), 2: soil moisture (irrigation, drainage),
\* 3: yield gap (soil testing, precision agriculture), 0: the generic message
Category(r) ==
    IF r \in {RecNitrogen, RecFoliar, RecVariableRate} THEN 1
    ELSE IF r \in {RecIrrigation, RecDrainage} THEN 2
    ELSE IF r \in {RecSoilTesting, RecPrecisionAg} THEN 3
    ELSE 0

\* C9: in every returned list NDVI items precede soil-moisture items, which
\* precede yield-gap items; for ndvi 0.3, moisture 70, gap 3 the list is the
\* fertilizer items, the drainage item, then the yield-gap items.
CategoryOrderFixed ==
    recOut # Null =>
        /\ \A i, j \in 1..Len(recOut.items) :
               i < j => Category(recOut.items[i]) <= Category(recOut.items[j])
        /\ (recIn = RecArgs(300, 700, 300)
                => recOut.items = <<RecNitrogen, RecFoliar, RecDrainage,
                                    RecSoilTesting, RecPrecisionAg>>)

ScenarioDApplied ==
    /\ recIn = RecArgs(300, 700, 300)
    /\ recOut # Null
    /\ Len(recOut.items) = 5

CountIn(seq, c) == Cardinality({i \in 1..Len(seq) : Category(seq[i]) = c})

ExpectedNdviItems(ndvi) == IF ndvi < 400 THEN 2 ELSE IF ndvi < 600 THEN 1 ELSE 0
ExpectedMoistureItems(m) == IF m < 250 \/ m > 600 THEN 1 ELSE 0
ExpectedGapItems(g) == IF g > 200 THEN 2 ELSE 0

\* C10: each category contributes a fixed number of items that depends on its
\* own input only (NDVI 2 / 1 / 0, soil moisture 1 / 0, yield gap 2 / 0); the
\* list length is their sum, 1 when the sum is 0, and never exceeds 5.
CategoryCounts ==
    recOut # Null =>
        LET n == ExpectedNdviItems(recIn.ndvi)
            m == ExpectedMoistureItems(recIn.soilMoisture)
            g == ExpectedGapItems(recIn.yieldGap)
        IN  /\ CountIn(recOut.items, 1) = n
            /\ CountIn(recOut.items, 2) = m
            /\ CountIn(recOut.items, 3) = g
            /\ Len(recOut.items) = (IF n + m + g = 0 THEN 1 ELSE n + m + g)
            /\ Len(recOut.items) <= 5

\* NDVI exactly at 0.6 with the other two categories firing
BoundaryNdviApplied ==
    /\ recOut # Null
    /\ recIn.ndvi = 600
    /\ recIn.soilMoisture = 601
    /\ recIn.yieldGap = 201
    /\ Len(recOut.items) = 3

RingTooShort == Len(coordinates) < 3

\* C3 as stated: for a ring of at least 3 vertices the estimator returns a
\* non-null result whatever the remote outcome is.
NonNullForEveryOutcome ==
    (rsPc = "done" /\ ~RingTooShort) => (~rsRejected /\ rsResult # Null)

RemoteGaveData ==
    \/ (response.kind = "transport" /\ response.failedToFetch)
    \/ (response.kind = "response" /\ Ok(response.status) /\ response.body.kind = "object")

\* C3 amended: for a ring of at least 3 vertices fetchRemoteSensingData never
\* rejects; its result is non-null exactly when the response is 2xx with a
\* parsable non-null body or the transport failure is a 'Failed to fetch'
\* TypeError (simulated values), and null for every other outcome.
RemoteFailureNotFatal ==
    (rsPc = "done" /\ ~RingTooShort) =>
        /\ ~rsRejected
        /\ (rsResult # Null <=> RemoteGaveData)
        /\ (response.kind = "transport" /\ response.failedToFetch
                => /\ rsResult.ndvi >= 100 /\ rsResult.ndvi <= 900
                   /\ rsResult.soil_moisture >= 100 /\ rsResult.soil_moisture <= 500)

NonOkStatusGaveNull ==
    /\ rsPc = "done"
    /\ ~RingTooShort
    /\ response.kind = "response"
    /\ ~Ok(response.status)
    /\ rsResult = Null

InNdviBounds(x) == Ge(x, 100) /\ Le(x, 900)

\* C4: every NDVI the estimator returns is in [0.1, 0.9], from the remote
\* response or the simulated fallback, and so is the NDVI of a field created
\* from that result.
NdviWithinBounds ==
    /\ (rsPc = "done" /\ rsResult # Null /\ IsNum(rsResult.ndvi)
            => InNdviBounds(rsResult.ndvi))
    /\ (newField # Null /\ IsNum(newField.ndvi) => InNdviBounds(newField.ndvi))

\* C5: an empty ring or one with fewer than 3 vertices makes the estimator
\* return null without a network request and without an error.
ShortRingShortCircuits ==
    (rsPc # "idle" /\ RingTooShort) =>
        /\ rsPc = "done"
        /\ rsResult = Null
        /\ netRequests = 0
        /\ requestCoords = Null
        /\ response = Null
        /\ ~rsRejected

TwoVertexRingReturned ==
    /\ rsPc = "done"
    /\ Len(coordinates) = 2
    /\ rsResult = Null

(***************************************************************************)
(* Daily history                                                           *)
(***************************************************************************)
MonthIndex(name) == CHOOSE m \in 0..11 : MonthNames[m + 1] = name

\* days from the start of the calendar to the date a point is labelled with
DayNumber(s) ==
    LET y == s.yyyy - 1
        m == MonthIndex(s.MMM)
        before == <<0, 31, 59, 90, 120, 151, 181, 212, 243, 273, 304, 334>>[m + 1]
        leapDay == IF m > 1 /\ IsLeapYear(s.yyyy) THEN 1 ELSE 0
    IN  365 * y + y \div 4 - y \div 100 + y \div 400 + before + leapDay + s.dd

LocalList == IF local_fields # Null THEN JSONParse(local_fields) ELSE << >>

OneRecordPerId(list) ==
    \A j, k \in 1..Len(list) : list[j].id = list[k].id => j = k

\* C13: after any sequence of saveFieldData calls 'local_fields' holds at
\* most one record per field id, the record of a saved id is the one saved
\* last, and a call leaves the records of the other ids as they were.
SaveUpsertsById ==
    [][LET old == LocalList
           new == LocalList'
       IN  /\ OneRecordPerId(new)
           /\ saveField' # Null =>
                  \E k \in 1..Len(new) : new[k] = saveField'
           /\ \A k \in 1..Len(old) :
                  (saveField' = Null \/ old[k].id # saveField'.id) =>
                      k <= Len(new) /\ new[k] = old[k]]_vars

\* a record of an id already in the cache has been saved a second time
SavedOverExistingRecord ==
    /\ savePc = "returned"
    /\ Len(LocalList) = 2
    /\ saveField.id = 1
    /\ saveField.lastUpdated >= 2
    /\ LocalList[1] = saveField
    /\ LocalList[2].lastUpdated = Undefined

\* C14: when saveFieldData found the remote store unreachable or its upsert
\* failed, the record it was given is in the local cache when it returns;
\* and the saveFieldData promise never rejects.
LocalCacheRecovers ==
    /\ ~saveThrew
    /\ (savePc = "returned" /\ saveOutcome \in {"unreachable", "upsertFailed"}) =>
           /\ saveReturn # Null
           /\ \E k \in 1..Len(LocalList) : LocalList[k] = saveField
           /\ selected_field = JSONStringify(saveField)

\* the upsert failed after the connection check had passed
UpsertFailedSavedLocally ==
    /\ savePc = "returned"
    /\ saveOutcome = "upsertFailed"
    /\ saveReturn = [kind |-> "boolean", value |-> FALSE]
    /\ \A k \in 1..Len(remoteFields) : remoteFields[k].id # saveField.id

(***************************************************************************)
(* The Fields page                                                         *)
(***************************************************************************)
\* C12: every create, rename and delete of the Fields page completes
\* without surfacing a failure, whatever the remote store does.
NoFailureSurfaced == lastOp.outcome # "error"

\* C15: a field whose creation fell back to the local cache is in the
\* displayed list once the list has been refetched, whatever the remote
\* store answered to the refetch.
FallbackFieldStaysListed ==
    (lastOp.op = "create" /\ lastOp.path = "fallback" /\ refetched) =>
        lastOp.id \in DisplayedIds

\* the store the last mutation wrote to
StoreWritten == IF lastOp.path = "remote" THEN remoteFields ELSE LocalList

\* C16: a create or a rename leaves the stored record with lastUpdated set
\* to the time of the operation.  (The row a remote insert produces is left
\* out: what the table fills in is not fixed by this repository.)
LastUpdatedRefreshed ==
    (/\ lastOp.op \in {"create", "rename"}
     /\ lastOp.outcome = "success"
     /\ ~(lastOp.op = "create" /\ lastOp.path = "remote")) =>
        /\ \E k \in 1..Len(StoreWritten) : StoreWritten[k].id = lastOp.id
        /\ \A k \in 1..Len(StoreWritten) :
               StoreWritten[k].id = lastOp.id => StoreWritten[k].lastUpdated = lastOp.at

(***************************************************************************)
(* The estimator under the draw events of the map                          *)
(***************************************************************************)
\* a body that is not JSON, or JSON without a numeric ndvi and soil_moisture
Malformed(body) ==
    \/ body.kind = "unparsable"
    \/ body.kind = "null"
    \/ body.kind = "object" /\ (~IsNum(body.ndvi) \/ ~IsNum(body.soil_moisture))

\* C18: a response with a status outside 200-299 or with a malformed body is
\* a tier failure: the estimator returns none of it and a field created
\* after it has a numeric ndvi and soilMoisture.
BadResponseIsTierFailure ==
    (/\ rsPc = "done"
     /\ response.kind = "response"
     /\ (~Ok(response.status) \/ Malformed(response.body))) =>
        /\ rsResult = Null
        /\ newField.kind = "field" =>
               IsNum(newField.ndvi) /\ IsNum(newField.soilMoisture)

\* C19: a draw.create or draw.update event makes exactly one estimator
\* call; a draw.delete event makes no estimator call, issues no network
\* request and changes no stored field record.
OnlyCreateAndUpdateEstimate ==
    [][/\ (events' # events /\ drawEvent' \in {"create", "update"}) =>
              estimatorCalls' = estimatorCalls + 1
       /\ (events' = events /\ rsPc # "idle") =>
              estimatorCalls' = estimatorCalls
       /\ (events' # events /\ drawEvent' = "delete") =>
              /\ estimatorCalls' = estimatorCalls
              /\ netRequests' = netRequests
              /\ requestCoords' = requestCoords
              /\ rsPc' = rsPc
              /\ newField' = newField
              /\ fieldUpdates' = fieldUpdates
              /\ local_fields' = local_fields
              /\ selected_field' = selected_field
              /\ remoteFields' = remoteFields]_vars

\* a polygon was deleted while the estimate for a redrawn one was awaited
DeletedWhileEstimating ==
    /\ drawEvent = "delete"
    /\ caller = "update"
    /\ rsPc = "awaitFetch"
    /\ estimatorCalls = 1
    /\ netRequests = 1

IsClosed(r) == Len(r) > 0 /\ r[1] = r[Len(r)]

\* C20: the ring sent to the remote API is closed: an open ring gets its
\* first vertex appended once, a closed ring is sent as it is (closing is
\* idempotent), and the caller's list is left as it was.
SentRingClosed ==
    requestCoords # Null =>
        LET sent == requestCoords.coords
        IN  /\ IsClosed(sent)
            /\ ~IsClosed(passedCoords) => sent = Append(passedCoords, passedCoords[1])
            /\ IsClosed(passedCoords) => sent = passedCoords
            /\ ClosedRing(sent) = sent
            /\ coordinates = passedCoords

\* an open ring of three vertices went out as a ring of four
OpenRingSent ==
    /\ requestCoords # Null
    /\ Len(passedCoords) = 3
    /\ ~IsClosed(passedCoords)
    /\ Len(requestCoords.coords) = 4

(***************************************************************************)
(* Redraws in quick succession                                             *)
(***************************************************************************)
\* C17: once every call has ended, the field record holds the polygon, the
\* area and the metrics of the call that was begun last, whatever order
\* the responses arrived in.
LastInitiatedWins ==
    (Len(redraws) >= 2 /\ \A n \in 1..Len(redraws) : redraws[n].pc = "done") =>
        LET last == redraws[Len(redraws)]
        IN  /\ fieldRecord.polygon = last.ring
            /\ fieldRecord.area = RoundedArea(last.ring)
            /\ last.result # Null =>
                   /\ fieldRecord.ndvi = last.result.ndvi
                   /\ fieldRecord.soilMoisture = last.result.soil_moisture

(***************************************************************************)
(* The dataSource tag                                                      *)
(***************************************************************************)
Tiers == RemoteSources \cup {SyntheticModel}

\* the tier whose data the returned prediction was assembled from
Producer == attempted[Len(attempted)]

\* C21: the dataSource of a returned prediction is the tag of the tier that
\* produced it, no other tier writes that tag, and it is 'synthetic-model'
\* exactly when every remote source failed in the call.
DataSourceIdentifiesTier ==
    (pc = "done" /\ result # Null) =>
        /\ result.dataSource = DataSourceTag(Producer)
        /\ \A t \in Tiers \ {Producer} : DataSourceTag(t) # result.dataSource
        /\ (result.dataSource = "synthetic-model") <=> (failed = RemoteSources)

\* a prediction of the second tier, tagged by the source's own name
NASAHarvestTagged ==
    /\ pc = "done"
    /\ result # Null
    /\ Producer = NASAHarvest
    /\ failed = {EarthEngine}
    /\ result.dataSource = "NASA Harvest"

(***************************************************************************)
(* yieldHistory                                                            *)
(***************************************************************************)
\* C22: the yieldHistory of a returned prediction has exactly 5 entries, for
\* the years currentYear-4 .. currentYear in ascending order, each with a
\* positive value, whichever tier produced the prediction.
FiveYearSeries ==
    (pc = "done" /\ result # Null) =>
        /\ yieldHistory # Null
        /\ Len(yieldHistory.items) = 5
        /\ \A k \in 1..5 :
               /\ yieldHistory.items[k].year = currentYear - 5 + k
               /\ IsNum(yieldHistory.items[k].value)
               /\ yieldHistory.items[k].value > 0

(***************************************************************************)
(* Histories of a loaded field                                             *)
(***************************************************************************)
\* the record of the route's id in 'local_fields'
SavedRecord ==
    LET list == JSONParse(local_fields)
    IN  list[FindIndex(list, routeId)]

SameHistories(f, g) ==
    /\ f.ndviHistory = g.ndviHistory
    /\ f.soilMoistureHistory = g.soilMoistureHistory

\* C23: a non-empty history on the stored record is kept unchanged, a history
\* is generated only when it is missing or empty, and once the field is
\* displayed both histories of the displayed and of the saved record are
\* non-empty.
HistoriesRegeneratedOnlyWhenAbsent ==
    /\ ("ndvi" \in generated) => IsAbsent(storedField.ndviHistory)
    /\ ("soilMoisture" \in generated) => IsAbsent(storedField.soilMoistureHistory)
    /\ loadPc \in {"awaitSave", "done"} /\ detailsField # Null =>
           /\ ~IsAbsent(storedField.ndviHistory) =>
                  detailsField.ndviHistory = storedField.ndviHistory
           /\ ~IsAbsent(storedField.soilMoistureHistory) =>
                  detailsField.soilMoistureHistory = storedField.soilMoistureHistory
           /\ ~IsAbsent(detailsField.ndviHistory)
           /\ ~IsAbsent(detailsField.soilMoistureHistory)
           /\ SameHistories(JSONParse(selected_field), detailsField)
           /\ SameHistories(SavedRecord, detailsField)

\* a record with an NDVI history and no soil-moisture history has been
\* loaded and saved
OneHistoryKeptOneGenerated ==
    /\ loadPc = "done"
    /\ detailsField # Null
    /\ storedField.ndviHistory = OldHistory
    /\ storedField.soilMoistureHistory = Null
    /\ generated = {"soilMoisture"}
    /\ detailsField.ndviHistory = OldHistory
    /\ Len(detailsField.soilMoistureHistory.items) = HistoryDays + 1

(***************************************************************************)
(* Weather of a loaded field                                               *)
(***************************************************************************)
\* C24: a weather request is issued only by a click on the refresh button
\* or by the auto-fetch effect while the weather tab is open and the field
\* has no snapshot, and at most one request is issued between two user
\* actions: an automatic fetch is neither repeated after it succeeded nor
\* retried after it failed.
WeatherOnDemand ==
    [][/\ Len(weatherCalls') > Len(weatherCalls) =>
              LET call == weatherCalls'[Len(weatherCalls')]
              IN  \/ call.cause = "click" /\ userActions' = userActions + 1
                  \/ /\ call.cause = "auto"
                     /\ detailsField.weatherData = Null
                     /\ activeTab = "weather"
       /\ requestsSinceAction' <= 1]_vars

\* the weather tab was opened, the automatic fetch has settled and the
\* effect has run again without a request
AutoFetchSettledQuietly ==
    /\ Len(weatherCalls) = 1
    /\ weatherCalls[1].cause = "auto"
    /\ weatherCalls[1].pc # "awaitFetch"
    /\ weatherCalls[1].saved # Null
    /\ activeTab = "weather"
    /\ ~effectPending

SnapshotAndStampTogether(f) == (f.weatherData # Null) <=> (f.lastWeatherFetch # Undefined)

\* C30: a call of refreshWeatherData whose request fails changes neither the
\* displayed field nor anything stored, and weatherData and lastWeatherFetch
\* are set together on the displayed and on the saved record.
FailedWeatherLeavesField ==
    [][/\ \A n \in 1..Len(weatherCalls) :
              (weatherCalls[n].pc = "awaitFetch" /\ weatherCalls'[n].pc = "done") =>
                  UNCHANGED <<detailsField, local_fields, selected_field, remoteFields>>
       /\ SnapshotAndStampTogether(detailsField')
       /\ SnapshotAndStampTogether(JSONParse(selected_field'))
       /\ SnapshotAndStampTogether(JSONParse(local_fields')[1])]_vars

\* one call has failed and another has set and saved a snapshot
OneRefreshFailedOneSaved ==
    \E m, n \in 1..Len(weatherCalls) :
        /\ weatherCalls[m].pc = "done"
        /\ weatherCalls[m].saved = Null
        /\ weatherCalls[n].saved # Null
        /\ weatherCalls[n].field.weatherData = Null
        /\ detailsField.weatherData # Null

(***************************************************************************)
(* calculateRealNDVI                                                       *)
(***************************************************************************)
\* C25: calculateRealNDVI returns min <= mean <= max with min >= 0 and
\* max <= 1, after the three values are rounded to two decimals.
NdviOrdered ==
    ndviOut # Null =>
        /\ 0 <= ndviOut.min
        /\ ndviOut.min <= ndviOut.mean
        /\ ndviOut.mean <= ndviOut.max
        /\ ndviOut.max <= 100

\* a large winter field near the pole: the mean is below the spread, so the
\* minimum is held at 0
NdviMinHeldAtZero ==
    /\ ndviOut # Null
    /\ ndviIn.areaHectares = 400
    /\ ndviOut.min = 0
    /\ ndviOut.mean > 0
    /\ ndviOut.max > ndviOut.mean

(***************************************************************************)
(* Soil-moisture colours                                                   *)
(***************************************************************************)
\* C26: for every moisture value the map of the Fields page
\* (getSoilMoistureColor) and the map of the FieldDetails page
\* (getSoilMoistureCategory) give the field the same colour.
SameColourOnBothMaps ==
    moistureColours # Null => moistureColours.map = moistureColours.details

(***************************************************************************)
(* What a redraw changes on the field                                      *)
(***************************************************************************)
\* C27: when the estimator returned no data, the updates handleDrawUpdate
\* passes to onFieldUpdated change only area, polygon and lastUpdated and
\* the field keeps its previous ndvi and soilMoisture; when it returned
\* data, ndvi and soilMoisture are both replaced by the returned values.
MetricsKeptOrReplacedTogether ==
    [][\A n \in 1..Len(redraws) :
          (/\ wired
           /\ Len(redraws') = Len(redraws)
           /\ redraws[n].pc = "awaitFetch"
           /\ redraws'[n].pc = "done") =>
              LET v == redraws'[n].result
              IN  /\ fieldRecord'.area = RoundedArea(redraws[n].ring)
                  /\ fieldRecord'.polygon = redraws[n].ring
                  /\ fieldRecord'.lastUpdated = clock'
                  /\ v = Null =>
                         /\ fieldRecord'.ndvi = fieldRecord.ndvi
                         /\ fieldRecord'.soilMoisture = fieldRecord.soilMoisture
                  /\ v # Null =>
                         /\ fieldRecord'.ndvi = v.ndvi
                         /\ fieldRecord'.soilMoisture = v.soil_moisture]_vars

(***************************************************************************)
(* Overlapping creates                                                     *)
(***************************************************************************)
\* the call begun as the m-th was begun before the n-th had ended
Overlap(n, m) == n \in creates[m].during

\* C28: when two createField calls overlap and both fall back to the local
\* cache, then once both have ended 'local_fields' contains both new fields,
\* with distinct ids.
NoCreatedFieldLost ==
    \A n, m \in 1..Len(creates) :
        (/\ n # m
         /\ Overlap(n, m)
         /\ creates[n].pc = "done" /\ creates[n].path = "fallback"
         /\ creates[m].pc = "done" /\ creates[m].path = "fallback") =>
            /\ creates[n].id # creates[m].id
            /\ \E k \in 1..Len(LocalList) : LocalList[k].id = creates[n].id
            /\ \E k \in 1..Len(LocalList) : LocalList[k].id = creates[m].id

(***************************************************************************)
(* deleteField                                                             *)
(***************************************************************************)
\* the records of a list whose id is not id
Others(list, id) == {list[k] : k \in {j \in 1..Len(list) : list[j].id # id}}

====
